---- MODULE Spec2Model ----
(***************************************************************************)
(* DatumHub package registry: the SQLite tables (users, api_tokens,        *)
(* packages), the FTS5 index packages_fts kept by triggers, and the HTTP    *)
(* handlers that read and write them.                                       *)
(*                                                                          *)
(* Text is modelled as sequences of one-character strings, so that          *)
(* splitting, tokenising and prefix matching are computed, not assumed.     *)
(* Timestamps (datetime('now')) are integers: one tick of the clock.        *)
(***************************************************************************)
EXTENDS Integers, Sequences, FiniteSets, TLC

VARIABLES
    users,          \* table users: rows [id, username, password_hash]
    api_tokens,     \* table api_tokens: rows [user_id, token, expires_at]
    packages,       \* table packages: rows [id, package_id, version, owner_id, data, published_at]
    packages_fts,   \* FTS5 table packages_fts: rows [rowid, package_id, title, tags, publisher_name]
    pkg_seq,        \* sqlite_sequence entry of packages (AUTOINCREMENT never reuses an id)
    has_fts,        \* TRUE iff _setup_fts created packages_fts and its triggers
    now,            \* the clock read by datetime('now')
    last,           \* the last request served and its response
    workers         \* the requests in flight on the shared connection, one per worker thread

vars == <<users, api_tokens, packages, packages_fts, pkg_seq, has_fts, now, last, workers>>

-----------------------------------------------------------------------------
(* Bounds of the exploration *)

MaxTime == 1
MaxRowId == 3

-----------------------------------------------------------------------------
(* Program constants *)

\* expires_at DEFAULT datetime('now', '+90 days'): one tick of the model's clock
TokenTTL == 1

\* cutoff=0.4 of suggest_packages, as the fraction 2/5
CutoffNum == 2
CutoffDen == 5

-----------------------------------------------------------------------------
(* Inputs *)

Alice == <<"a", "l">>
Bob == <<"b", "o">>
Usernames == {Alice, Bob}

GoodPassword == "password123"
Passwords == {GoodPassword, "wrongpass99"}

\* generate_token() draws 32 random bytes; two draws are enumerated
TokenValues == {"t1", "t2"}
TokenDrawn(username) == IF username = Alice THEN "t1" ELSE "t2"
NoCred == "none"
Credentials == TokenValues \cup {NoCred}

\* the values generate_token draws where logins and refreshes are explored
AuthTokens == TokenValues \cup {"t3"}
AuthCredentials == AuthTokens \cup {NoCred}

AlicePkg == <<"a", "l", "/", "s", "/", "w">>
BobPkg == <<"b", "o", "/", "s", "/", "w">>
PackageIds == {AlicePkg, BobPkg}
V1 == <<"0", ".", "1">>
V2 == <<"0", ".", "2">>
Versions == {V1, V2}
Keys == {<<AlicePkg, V1>>, <<AlicePkg, V2>>, <<BobPkg, V1>>}

TitleRain == <<"R", "a", "i", "n">>
TitleSun == <<"S", "u", "n">>
Titles == {TitleRain, TitleSun}
TitlesOf(id) == IF id = AlicePkg THEN Titles ELSE {TitleSun}

\* an Optional[...] field: None, or one value
None == <<>>
Some(value) == <<value>>
PublisherName == <<"N", "o">>
CsvSource == [url |-> <<"u">>, format |-> <<"c", "s", "v">>, size |-> None, checksum |-> None]

Body(id, version, title) ==
    [id |-> id, version |-> version, title |-> title, description |-> None,
     license |-> None, publisher |-> [name |-> PublisherName, url |-> None],
     tags |-> <<>>, sources |-> <<CsvSource>>]

\* text queries: a prefix of "Rain", the word "sun", a segment of every
\* identifier, and a word no document holds
QRain == <<"r", "a", "i">>
QSun == <<"s", "u", "n">>
QDataset == <<"w">>
QNothing == <<"n", "n">>
Queries == {QRain, QSun, QDataset, QNothing}
NoQuery == <<>>

PublisherInputs == {Alice, Bob}
NamespaceInputs == {<<"s">>}

\* list_packages: limit (1 to 500 in the handler) and offset as explored
MaxLimit == 2
MaxOffset == 2

\* payloads with tags: a title that is also a tag of another payload
TaggedBody(id, version, title, tags) == [Body(id, version, title) EXCEPT !.tags = tags]
SearchBodies ==
    {TaggedBody(AlicePkg, V1, TitleSun, <<>>),
     TaggedBody(AlicePkg, V1, TitleRain, <<TitleSun>>),
     TaggedBody(AlicePkg, V2, TitleRain, <<>>),
     TaggedBody(BobPkg, V1, TitleSun, <<TitleRain>>)}

\* tag filters: a tag in lower case, a proper prefix of it, another tag
TagSun == <<"s", "u", "n">>
TagPrefix == <<"s", "u">>
TagRain == <<"r", "a", "i", "n">>
TagFilters == {TagSun, TagPrefix, TagRain}
NoTag == <<>>

\* a text query inside a word of a title
QInside == <<"a", "i", "n">>

\* a text query with the character _
QWild == <<"s", "_", "n">>

\* suggest_packages: partial identifiers (the last two segments, a publisher,
\* a whole identifier, a word of no identifier) and n, 1 to 20 in the handler
SuggestQueries == {<<"s", "/", "w">>, Alice, BobPkg, <<"n", "n">>}
MaxSuggest == 2

\* request bodies for the validators: usernames (good, one character, upper
\* case, a newline at the end, 31 characters, an underscore inside) and
\* passwords
UsernameInputs ==
    {Alice, <<"a">>, <<"A", "l">>, Alice \o <<"\n">>, [i \in 1..31 |-> "a"], <<"a", "_", "l">>}
PasswordInputs == {GoodPassword, "short"}

\* the payload of AlicePkg 0.1 with another id, source list or checksum: two
\* segments, a newline at the end, no source, a checksum in lower-case and one
\* in upper-case hexadecimal digits
PackageInputs ==
    {[Body(AlicePkg, V1, TitleRain) EXCEPT !.id = in[1], !.sources = in[2]] :
        in \in {<<AlicePkg, <<CsvSource>> >>,
                << <<"a", "l", "/", "s">>, <<CsvSource>> >>,
                <<AlicePkg \o <<"\n">>, <<CsvSource>> >>,
                <<AlicePkg, <<>> >>,
                <<AlicePkg, <<[CsvSource EXCEPT
                                  !.checksum = Some(<<"m", "d", "5", ":", "a", "b">>)]>> >>,
                <<AlicePkg, <<[CsvSource EXCEPT
                                  !.checksum = Some(<<"m", "d", "5", ":", "A", "B">>)]>> >>}}

Bodies == UNION {{Body(k[1], k[2], t) : t \in TitlesOf(k[1])} : k \in Keys}

NoUser == [id |-> 0, username |-> <<>>]
NoId == <<>>
NoVersion == <<>>
Idle ==
    [op |-> "idle", status |-> 0, caller |-> NoUser.username,
     id |-> NoId, version |-> NoVersion, force |-> FALSE, replaced |-> FALSE]

-----------------------------------------------------------------------------
(* Text helpers *)

RECURSIVE split(_, _)
split(s, sep) ==
    IF s = <<>> THEN << <<>> >>
    ELSE LET rest == split(Tail(s), sep)
         IN  IF Head(s) = sep
             THEN << <<>> >> \o rest
             ELSE << <<Head(s)>> \o Head(rest) >> \o Tail(rest)

Letters == {"a", "b", "c", "i", "l", "n", "o", "r", "s", "u", "v", "w", "N", "R", "S"}
Digits == {"0", "1", "2"}

IsAlnum(c) == c \in Letters \cup Digits

lower(c) ==
    CASE c = "N" -> "n"
      [] c = "R" -> "r"
      [] c = "S" -> "s"
      [] OTHER -> c

Lower(s) == [i \in 1..Len(s) |-> lower(s[i])]

\* the length of the longest prefix of s made of alphanumerics
RECURSIVE RunLength(_)
RunLength(s) ==
    IF s = <<>> \/ ~IsAlnum(Head(s)) THEN 0 ELSE 1 + RunLength(Tail(s))

\* the unicode61 tokenizer of FTS5: maximal alphanumeric runs, case folded
RECURSIVE Tokens(_)
Tokens(s) ==
    IF s = <<>> THEN <<>>
    ELSE IF ~IsAlnum(Head(s)) THEN Tokens(Tail(s))
    ELSE LET n == RunLength(s)
         IN  <<Lower(SubSeq(s, 1, n))>> \o Tokens(SubSeq(s, n + 1, Len(s)))

RECURSIVE Flatten(_)
Flatten(ss) == IF ss = <<>> THEN <<>> ELSE Head(ss) \o Flatten(Tail(ss))

IsWord(c) == IsAlnum(c) \/ c = "_"

\* the length of the longest prefix of s made of word characters (\w)
RECURSIVE WordLength(_)
WordLength(s) ==
    IF s = <<>> \/ ~IsWord(Head(s)) THEN 0 ELSE 1 + WordLength(Tail(s))

\* re.sub(r'[^\w\s]', ' ', q).strip().split(): the maximal runs of word characters
RECURSIVE Words(_)
Words(s) ==
    IF s = <<>> THEN <<>>
    ELSE IF ~IsWord(Head(s)) THEN Words(Tail(s))
    ELSE LET n == WordLength(s)
         IN  <<SubSeq(s, 1, n)>> \o Words(SubSeq(s, n + 1, Len(s)))

\* json.dumps of the fields of a PackageIn, as model_dump_json writes them
Quote(s) == <<"\"">> \o s \o <<"\"">>

Field(name, value) == Quote(name) \o <<":">> \o value

JsonOpt(v) == IF v = None THEN <<"n", "u", "l", "l">> ELSE Quote(v[1])

RECURSIVE JoinComma(_)
JoinComma(items) ==
    IF items = <<>> THEN <<>>
    ELSE IF Len(items) = 1 THEN Head(items)
    ELSE Head(items) \o <<",">> \o JoinComma(Tail(items))

JsonSource(src) ==
    <<"{">> \o Field(<<"u", "r", "l">>, Quote(src.url))
    \o <<",">> \o Field(<<"f", "o", "r", "m", "a", "t">>, Quote(src.format))
    \o <<",">> \o Field(<<"s", "i", "z", "e">>, JsonOpt(src.size))
    \o <<",">> \o Field(<<"c", "h", "e", "c", "k", "s", "u", "m">>, JsonOpt(src.checksum))
    \o <<"}">>

model_dump_json(body) ==
    <<"{">> \o Field(<<"i", "d">>, Quote(body.id))
    \o <<",">> \o Field(<<"v", "e", "r", "s", "i", "o", "n">>, Quote(body.version))
    \o <<",">> \o Field(<<"t", "i", "t", "l", "e">>, Quote(body.title))
    \o <<",">> \o Field(<<"d", "e", "s", "c", "r", "i", "p", "t", "i", "o", "n">>,
                        JsonOpt(body.description))
    \o <<",">> \o Field(<<"l", "i", "c", "e", "n", "s", "e">>, JsonOpt(body.license))
    \o <<",">> \o Field(<<"p", "u", "b", "l", "i", "s", "h", "e", "r">>,
                        <<"{">> \o Field(<<"n", "a", "m", "e">>, Quote(body.publisher.name))
                        \o <<",">> \o Field(<<"u", "r", "l">>, JsonOpt(body.publisher.url))
                        \o <<"}">>)
    \o <<",">> \o Field(<<"t", "a", "g", "s">>,
                        <<"[">> \o JoinComma([i \in 1..Len(body.tags) |-> Quote(body.tags[i])])
                        \o <<"]">>)
    \o <<",">> \o Field(<<"s", "o", "u", "r", "c", "e", "s">>,
                        <<"[">> \o JoinComma([i \in 1..Len(body.sources) |->
                                                JsonSource(body.sources[i])])
                        \o <<"]">>)
    \o <<"}">>

IsPrefix(p, s) == Len(p) <= Len(s) /\ SubSeq(s, 1, Len(p)) = p

-----------------------------------------------------------------------------
(* SQL statements and triggers *)

COALESCE(value, default) == IF value = None THEN default ELSE value[1]

FtsDoc(new) ==
    [rowid |-> new.id,
     package_id |-> new.package_id,
     title |-> new.data.title,
     description |-> COALESCE(new.data.description, <<>>),
     tags |-> COALESCE(Some(new.data.tags), <<>>),
     publisher_name |-> new.data.publisher.name]

\* an insert trigger that leaves the title out of the document
TitleNotIndexed(fts, new) == fts \cup {[FtsDoc(new) EXCEPT !.title = <<>>]}

packages_fts_ai(fts, new) == fts \cup {FtsDoc(new)}

\* a delete trigger that leaves the document in place
StaleDocumentKept(fts, old) == fts

packages_fts_ad(fts, old) == {d \in fts : d.rowid # old.id}

RECURSIVE FireDelete(_, _)
FireDelete(fts, gone) ==
    IF gone = {} THEN fts
    ELSE LET old == CHOOSE r \in gone : TRUE
         IN  FireDelete(packages_fts_ad(fts, old), gone \ {old})

DB == [packages |-> packages, fts |-> packages_fts, seq |-> pkg_seq]

SelectPackage(pkgs, pid, ver) ==
    {r \in pkgs : r.package_id = pid /\ r.version = ver}

\* the table without UNIQUE(package_id, version)
NoUniqueConstraint(pkgs, pid, ver) == FALSE

UniqueViolation(pkgs, pid, ver) ==
    \E r \in pkgs : r.package_id = pid /\ r.version = ver

\* a DELETE that removes nothing
DeleteNothing(db, pid, ver) == db

\* a DELETE that removes the documents and leaves the rows
DeleteDocumentsOnly(db, pid, ver) ==
    LET gone == SelectPackage(db.packages, pid, ver)
    IN  [db EXCEPT !.fts = {d \in @ : \A r \in gone : d.rowid # r.id}]

DeletePackage(db, pid, ver) ==
    LET gone == SelectPackage(db.packages, pid, ver)
    IN  [db EXCEPT !.packages = @ \ gone,
                   !.fts = IF has_fts THEN FireDelete(@, gone) ELSE @]

InsertPackage(db, pid, ver, owner, data) ==
    IF UniqueViolation(db.packages, pid, ver)
    THEN [ok |-> FALSE, db |-> db]
    ELSE LET new == [id |-> db.seq + 1, package_id |-> pid, version |-> ver,
                     owner_id |-> owner, data |-> data, published_at |-> now]
         IN  [ok |-> TRUE,
              db |-> [packages |-> db.packages \cup {new},
                      fts |-> IF has_fts THEN packages_fts_ai(db.fts, new) ELSE db.fts,
                      seq |-> db.seq + 1]]

-----------------------------------------------------------------------------
(* Authorization guard *)

\* a lookup that still accepts a token at the instant of its expiry
NonStrictExpiry(cred) ==
    LET rows == {[id |-> u.id, username |-> u.username] :
                    u \in {u \in users : \E t \in api_tokens :
                              u.id = t.user_id /\ t.token = cred /\ t.expires_at >= now}}
    IN  IF cred = NoCred \/ rows = {}
        THEN [status |-> 401, user |-> NoUser]
        ELSE [status |-> 200, user |-> CHOOSE r \in rows : TRUE]

\* a lookup by token value alone
ExpiryIgnored(cred) ==
    LET rows == {[id |-> u.id, username |-> u.username] :
                    u \in {u \in users : \E t \in api_tokens :
                              u.id = t.user_id /\ t.token = cred}}
    IN  IF cred = NoCred \/ rows = {}
        THEN [status |-> 401, user |-> NoUser]
        ELSE [status |-> 200, user |-> CHOOSE r \in rows : TRUE]

get_current_user(cred) ==
    IF cred = NoCred
    THEN [status |-> 401, user |-> NoUser]
    ELSE LET rows == {[id |-> u.id, username |-> u.username] :
                        u \in {u \in users : \E t \in api_tokens :
                                  /\ u.id = t.user_id
                                  /\ t.token = cred
                                  /\ t.expires_at > now}}
         IN  IF rows = {}
             THEN [status |-> 401, user |-> NoUser]
             ELSE [status |-> 200, user |-> CHOOSE r \in rows : TRUE]

Authenticated(cred) == get_current_user(cred).status = 200

Caller(cred) == get_current_user(cred).user

-----------------------------------------------------------------------------
(* Read handlers, as functions of the tables *)

\* FROM packages p JOIN users u ON u.id = p.owner_id
JoinUsers(pkgs) == {r \in pkgs : \E u \in users : u.id = r.owner_id}

OwnerName(r) == (CHOOSE u \in users : u.id = r.owner_id).username

_row_to_out(r) ==
    [data |-> r.data, published_at |-> r.published_at, owner |-> OwnerName(r)]

\* ORDER BY p.published_at, p.id without DESC
OldestFirst(a, b) ==
    \/ a.published_at < b.published_at
    \/ a.published_at = b.published_at /\ a.id < b.id

\* ORDER BY p.published_at DESC, p.id DESC
Newer(a, b) ==
    \/ a.published_at > b.published_at
    \/ a.published_at = b.published_at /\ a.id > b.id

RECURSIVE OrderNewestFirst(_)
OrderNewestFirst(rows) ==
    IF rows = {} THEN <<>>
    ELSE LET top == CHOOSE r \in rows : \A o \in rows \ {r} : Newer(r, o)
         IN  <<top>> \o OrderNewestFirst(rows \ {top})

get_package(pkgs, pid, ver) ==
    LET rows == SelectPackage(JoinUsers(pkgs), pid, ver)
    IN  IF rows = {}
        THEN [status |-> 404, data |-> None]
        ELSE [status |-> 200, data |-> Some((CHOOSE r \in rows : TRUE).data)]

\* a handler that answers a package without versions with an empty list
EmptyVersionList(pkgs, pid) ==
    LET rows == OrderNewestFirst({r \in JoinUsers(pkgs) : r.package_id = pid})
    IN  [status |-> 200, versions |-> [i \in 1..Len(rows) |-> _row_to_out(rows[i])]]

get_all_versions(pkgs, pid) ==
    LET rows == OrderNewestFirst({r \in JoinUsers(pkgs) : r.package_id = pid})
    IN  IF rows = <<>>
        THEN [status |-> 404, versions |-> <<>>]
        ELSE [status |-> 200, versions |-> [i \in 1..Len(rows) |-> _row_to_out(rows[i])]]

get_latest(pkgs, pid) ==
    LET rows == OrderNewestFirst({r \in JoinUsers(pkgs) : r.package_id = pid})
    IN  IF rows = <<>>
        THEN [status |-> 404, data |-> None]
        ELSE [status |-> 200, data |-> Some(rows[1].data)]

\* SQLite's LIKE: % is any run, _ any one character, ASCII letters fold case.
\* The pattern is cut at its % signs: the first piece must start the text, the
\* last must end it, and the pieces between are found left to right.
PieceAt(piece, text, i) ==
    /\ i >= 1
    /\ i + Len(piece) - 1 <= Len(text)
    /\ \A k \in 1..Len(piece) :
          piece[k] = "_" \/ lower(piece[k]) = lower(text[i + k - 1])

\* the position after pieces k .. Len(pieces) - 1, each found at its leftmost
\* place from position from on; 0 when one of them is found nowhere
RECURSIVE PiecesFrom(_, _, _, _)
PiecesFrom(pieces, k, text, from) ==
    IF k >= Len(pieces) THEN from
    ELSE LET places == {i \in from..(Len(text) - Len(pieces[k]) + 1) :
                           PieceAt(pieces[k], text, i)}
         IN  IF places = {} THEN 0
             ELSE PiecesFrom(pieces, k + 1, text,
                             (CHOOSE i \in places : \A j \in places : i <= j)
                                 + Len(pieces[k]))

Like(pattern, text) ==
    LET pieces == split(pattern, "%")
        n == Len(pieces)
    IN  IF n = 1 THEN Len(text) = Len(pattern) /\ PieceAt(pattern, text, 1)
        ELSE /\ PieceAt(pieces[1], text, 1)
             /\ LET after == PiecesFrom(pieces, 2, text, Len(pieces[1]) + 1)
                IN  /\ after > 0
                    /\ Len(text) - Len(pieces[n]) + 1 >= after
                    /\ PieceAt(pieces[n], text, Len(text) - Len(pieces[n]) + 1)

\* the rows of _packages_for_user, before ORDER BY p.published_at DESC
_packages_for_user(pkgs, user_id) ==
    {r \in JoinUsers(pkgs) : r.owner_id = user_id}

\* the rows of get_publisher, before ORDER BY p.published_at DESC
get_publisher(pkgs, publisher) ==
    LET rows == {r \in JoinUsers(pkgs) : Like(publisher \o <<"/", "%">>, r.package_id)}
    IN  [status |-> IF rows = {} THEN 404 ELSE 200, rows |-> rows]

get_namespace(pkgs, publisher, namespace) ==
    LET rows == {r \in JoinUsers(pkgs) :
                    Like(publisher \o <<"/">> \o namespace \o <<"/", "%">>, r.package_id)}
    IN  [status |-> IF rows = {} THEN 404 ELSE 200, rows |-> rows]

\* SELECT DISTINCT package_id FROM packages: the candidates of suggest_packages
all_ids(pkgs) == {r.package_id : r \in pkgs}

\* Python's < on str: the first position that differs decides, by code point;
\* a proper prefix is smaller. The characters of identifiers in code-point order
StrLess(a, b) ==
    LET ascii == <<"\n", "-", ".", "/", "0", "1", "2", "3", "4", "5", "6", "7", "8", "9",
                   "a", "b", "c", "d", "e", "f", "g", "h", "i", "j", "k", "l", "m", "n",
                   "o", "p", "q", "r", "s", "t", "u", "v", "w", "x", "y", "z">>
        ord(c) == CHOOSE i \in 1..Len(ascii) : ascii[i] = c
    IN  \E k \in 1..Len(b) :
            /\ k <= Len(a) + 1
            /\ \A i \in 1..(k - 1) : a[i] = b[i]
            /\ k = Len(a) + 1 \/ ord(a[k]) < ord(b[k])

\* difflib.SequenceMatcher without junk (autojunk needs 200 elements): the
\* length of the common run of a from i and b from j
RECURSIVE RunAt(_, _, _, _)
RunAt(a, b, i, j) ==
    IF i > Len(a) \/ j > Len(b) \/ a[i] # b[j] THEN 0 ELSE 1 + RunAt(a, b, i + 1, j + 1)

\* SequenceMatcher.find_longest_match: <<i, j, k>> with a[i..i+k-1] = b[j..j+k-1],
\* k largest, then i smallest, then j smallest
find_longest_match(a, b) ==
    LET runs == {<<i, j, RunAt(a, b, i, j)>> : i \in 1..Len(a), j \in 1..Len(b)}
    IN  IF runs = {} THEN <<1, 1, 0>>
        ELSE CHOOSE m \in runs : \A o \in runs :
                \/ m[3] > o[3]
                \/ m[3] = o[3] /\ m[1] < o[1]
                \/ m[3] = o[3] /\ m[1] = o[1] /\ m[2] <= o[2]

\* SequenceMatcher.get_matching_blocks, summed: the longest match, then the
\* same to its left and to its right
RECURSIVE Matches(_, _)
Matches(a, b) ==
    LET m == find_longest_match(a, b)
    IN  IF m[3] = 0 THEN 0
        ELSE m[3] + Matches(SubSeq(a, 1, m[1] - 1), SubSeq(b, 1, m[2] - 1))
                  + Matches(SubSeq(a, m[1] + m[3], Len(a)), SubSeq(b, m[2] + m[3], Len(b)))

\* SequenceMatcher(a=x, b=word).ratio() = 2.0 * matches / (len(a) + len(b)), kept
\* as the fraction <<numerator, denominator>>
ratio(x, word) == <<2 * Matches(x, word), Len(x) + Len(word)>>

\* the order of the tuples (score, x) that heapq.nlargest sorts by
Larger(x, y, word) ==
    LET sx == ratio(x, word)
        sy == ratio(y, word)
    IN  \/ sx[1] * sy[2] > sy[1] * sx[2]
        \/ sx[1] * sy[2] = sy[1] * sx[2] /\ StrLess(y, x)

RECURSIVE nlargest(_, _, _)
nlargest(n, result, word) ==
    IF n = 0 \/ result = {} THEN <<>>
    ELSE LET top == CHOOSE x \in result : \A y \in result \ {x} : Larger(x, y, word)
         IN  <<top>> \o nlargest(n - 1, result \ {top}, word)

\* a selection that returns every candidate at or above the cutoff
Uncapped(word, possibilities, n) ==
    LET result == {x \in possibilities :
                      ratio(x, word)[1] * CutoffDen >= CutoffNum * ratio(x, word)[2]}
    IN  nlargest(Cardinality(result), result, word)

\* difflib.get_close_matches(word, possibilities, n, cutoff=0.4): the candidates
\* with ratio() >= cutoff (real_quick_ratio and quick_ratio are upper bounds of
\* ratio and only save work), best first
get_close_matches(word, possibilities, n) ==
    LET result == {x \in possibilities :
                      ratio(x, word)[1] * CutoffDen >= CutoffNum * ratio(x, word)[2]}
    IN  nlargest(n, result, word)

suggest_packages(pkgs, q, n) ==
    [query |-> q, suggestions |-> get_close_matches(q, all_ids(pkgs), n)]

\* _fts_query: the terms that are OR-ed, each as a quoted prefix phrase "term"*
\* (no term at all gives the empty phrase "", which matches nothing)
_fts_query(q) == Words(q)

\* one column of an FTS5 row as its token sequence
ColumnTokens(doc) ==
    {Tokens(doc.package_id), Tokens(doc.title), Tokens(doc.description),
     Flatten([i \in 1..Len(doc.tags) |-> Tokens(doc.tags[i])]),
     Tokens(doc.publisher_name)}

\* packages_fts MATCH '"term"*': FTS5 tokenizes the quoted term into a phrase; the
\* phrase's tokens must be adjacent in one column, the last one as a prefix
PrefixMatch(doc, term) ==
    LET phrase == Tokens(term)
        n == Len(phrase)
    IN  /\ n > 0
        /\ \E col \in ColumnTokens(doc) : \E i \in 1..Len(col) :
              /\ i + n - 1 <= Len(col)
              /\ \A j \in 1..(n - 1) : col[i + j - 1] = phrase[j]
              /\ IsPrefix(phrase[n], col[i + n - 1])

FtsMatch(doc, terms) == \E i \in 1..Len(terms) : PrefixMatch(doc, terms[i])

\* packages_fts MATCH ? on the document joined by packages_fts.rowid = p.id
IndexedCondition(r, fts, q) ==
    \E d \in fts : d.rowid = r.id /\ FtsMatch(d, _fts_query(q))

\* lower(p.data) LIKE '%' || q.lower() || '%'
FallbackCondition(r, q) ==
    Like(<<"%">> \o Lower(q) \o <<"%">>, Lower(model_dump_json(r.data)))

\* list_packages with a text query q (<<>> stands for no q) and no tag filter:
\* the rows it selects, before ORDER BY, LIMIT and OFFSET
list_packages(pkgs, fts, q) ==
    IF q = <<>> THEN JoinUsers(pkgs)
    ELSE IF has_fts
    THEN {r \in JoinUsers(pkgs) : IndexedCondition(r, fts, q)}
    ELSE {r \in JoinUsers(pkgs) : FallbackCondition(r, q)}

\* lower(p.data) LIKE '%"' || tag.lower() || '"%'
TagCondition(r, tag) ==
    Like(<<"%", "\"">> \o Lower(tag) \o <<"\"", "%">>, Lower(model_dump_json(r.data)))

\* the rows of list_packages with q and tag (<<>> stands for none given)
ListRows(pkgs, fts, q, tag) ==
    {r \in list_packages(pkgs, fts, q) : tag = <<>> \/ TagCondition(r, tag)}

\* a SELECT without ORDER BY: the rows in any order
Unordered(rows, ranked) ==
    {o \in [1..Cardinality(rows) -> rows] :
        \A i, j \in 1..Cardinality(rows) : i # j => o[i] # o[j]}

\* the orders ORDER BY can give the rows: p.published_at DESC leaves the rows of
\* one second in any order; packages_fts.rank (used with q on the FTS path) is
\* a score that is not computed here, and any order is allowed for it
Orders(rows, ranked) ==
    {o \in [1..Cardinality(rows) -> rows] :
        /\ \A i, j \in 1..Cardinality(rows) : i # j => o[i] # o[j]
        /\ ranked \/ \A i, j \in 1..Cardinality(rows) :
                        i < j => o[i].published_at >= o[j].published_at}

\* a page that stops one row early
ShortPage(o, limit, offset) ==
    SubSeq(o, offset + 1, IF offset + limit - 1 < Len(o) THEN offset + limit - 1 ELSE Len(o))

\* LIMIT ? OFFSET ?
LimitOffset(o, limit, offset) ==
    SubSeq(o, offset + 1, IF offset + limit < Len(o) THEN offset + limit ELSE Len(o))

\* the pages of a row set: items, total, limit, offset, has_next and has_prev
Pages(rows, ranked, limit, offset) ==
    LET total == Cardinality(rows)
    IN  {[items |-> [i \in 1..Len(LimitOffset(o, limit, offset)) |->
                        _row_to_out(LimitOffset(o, limit, offset)[i])],
          total |-> total,
          limit |-> limit,
          offset |-> offset,
          has_next |-> offset + limit < total,
          has_prev |-> offset > 0] : o \in Orders(rows, ranked)}

\* the responses list_packages can give
PackageList(pkgs, fts, q, tag, limit, offset) ==
    Pages(ListRows(pkgs, fts, q, tag), q # <<>> /\ has_fts, limit, offset)

\* a test for the parameter being in the request (is not None)
Given(opt) == opt # None

\* Python's truth test of an Optional[str] query parameter (if q:, if tag:):
\* false for None, when the request has no such parameter, and for ""
Truthy(opt) == opt # None /\ opt[1] # <<>>

\* a handler that drops the tag filter when a text query is given
TagIgnoredWithQuery(pkgs, fts, q, tag, limit, offset) ==
    LET rows == {r \in JoinUsers(pkgs) :
                    IF Truthy(q)
                    THEN IF has_fts THEN IndexedCondition(r, fts, q[1])
                                    ELSE FallbackCondition(r, q[1])
                    ELSE Truthy(tag) => TagCondition(r, tag[1])}
    IN  Pages(rows, Truthy(q) /\ has_fts, limit, offset)

\* GET /api/v1/packages with its query parameters q and tag as the request
\* carries them (None, or Some of a string that may be empty): the responses
\* the handler can give
ListPackages(pkgs, fts, q, tag, limit, offset) ==
    LET rows == {r \in JoinUsers(pkgs) :
                    /\ Truthy(q) => IF has_fts THEN IndexedCondition(r, fts, q[1])
                                               ELSE FallbackCondition(r, q[1])
                    /\ Truthy(tag) => TagCondition(r, tag[1])}
    IN  Pages(rows, Truthy(q) /\ has_fts, limit, offset)

-----------------------------------------------------------------------------
(* Identity handlers *)

\* a served request and its response: the handler, the HTTP status, the username
\* the credential resolved to, the key and force flag of a package write, and
\* whether the write deleted an existing row
Response(op, status, caller, id, version, force, replaced) ==
    [op |-> op, status |-> status, caller |-> caller.username,
     id |-> id, version |-> version, force |-> force, replaced |-> replaced]

hash_password(password) == <<"pbkdf2", password>>

\* a comparison that accepts every password
AnyPassword(password, stored) == TRUE

verify_password(password, stored) == stored = <<"pbkdf2", password>>

\* a registration that never looks for the username
DuplicateRegister(username, password) ==
    /\ users' = users \cup {[id |-> Cardinality(users) + 1,
                              username |-> username,
                              password_hash |-> hash_password(password)]}
    /\ last' = Response("register", 201, NoUser, NoId, NoVersion, FALSE, FALSE)
    /\ UNCHANGED <<api_tokens, packages, packages_fts, pkg_seq, has_fts, now, workers>>

register(username, password) ==
    /\ IF \E u \in users : u.username = username
       THEN /\ last' = Response("register", 409, NoUser, NoId, NoVersion, FALSE, FALSE)
            /\ UNCHANGED users
       ELSE /\ users' = users \cup {[id |-> Cardinality(users) + 1,
                                     username |-> username,
                                     password_hash |-> hash_password(password)]}
            /\ last' = Response("register", 201, NoUser, NoId, NoVersion, FALSE, FALSE)
    /\ UNCHANGED <<api_tokens, packages, packages_fts, pkg_seq, has_fts, now, workers>>

\* a login that replaces the credentials the user already has
ReplacingLogin(username, password, token) ==
    /\ LET rows == {u \in users : u.username = username}
       IN  IF rows = {} \/ \A u \in rows : ~verify_password(password, u.password_hash)
           THEN /\ last' = Response("get_token", 401, NoUser, NoId, NoVersion, FALSE, FALSE)
                /\ UNCHANGED api_tokens
           ELSE IF \E t \in api_tokens : t.token = token
           THEN /\ last' = Response("get_token", 500, NoUser, NoId, NoVersion, FALSE, FALSE)
                /\ UNCHANGED api_tokens
           ELSE /\ api_tokens' = {t \in api_tokens : \A u \in rows : t.user_id # u.id} \cup
                       {[user_id |-> (CHOOSE u \in rows : TRUE).id,
                         token |-> token,
                         expires_at |-> now + TokenTTL]}
                /\ last' = Response("get_token", 200, NoUser, NoId, NoVersion, FALSE, FALSE)
    /\ UNCHANGED <<users, packages, packages_fts, pkg_seq, has_fts, now, workers>>

get_token(username, password, token) ==
    /\ LET rows == {u \in users : u.username = username}
       IN  IF rows = {} \/ \A u \in rows : ~verify_password(password, u.password_hash)
           THEN /\ last' = Response("get_token", 401, NoUser, NoId, NoVersion, FALSE, FALSE)
                /\ UNCHANGED api_tokens
           ELSE IF \E t \in api_tokens : t.token = token
           THEN /\ last' = Response("get_token", 500, NoUser, NoId, NoVersion, FALSE, FALSE)
                /\ UNCHANGED api_tokens
           ELSE /\ api_tokens' = api_tokens \cup
                       {[user_id |-> (CHOOSE u \in rows : TRUE).id,
                         token |-> token,
                         expires_at |-> now + TokenTTL]}
                /\ last' = Response("get_token", 200, NoUser, NoId, NoVersion, FALSE, FALSE)
    /\ UNCHANGED <<users, packages, packages_fts, pkg_seq, has_fts, now, workers>>

\* POST /api/auth/refresh: the bearer credential is resolved as for every
\* authenticated route, and a credential with a newly drawn token value and a
\* new expiry is stored for the same user; the presented one is left as it is
refresh_token(cred, token) ==
    /\ LET auth == get_current_user(cred)
       IN  IF auth.status # 200
           THEN /\ last' = Response("refresh_token", 401, NoUser, NoId, NoVersion, FALSE, FALSE)
                /\ UNCHANGED api_tokens
           ELSE IF \E t \in api_tokens : t.token = token
           THEN /\ last' = Response("refresh_token", 500, auth.user, NoId, NoVersion,
                                    FALSE, FALSE)
                /\ UNCHANGED api_tokens
           ELSE /\ api_tokens' = api_tokens \cup
                       {[user_id |-> auth.user.id,
                         token |-> token,
                         expires_at |-> now + TokenTTL]}
                /\ last' = Response("refresh_token", 200, auth.user, NoId, NoVersion,
                                    FALSE, FALSE)
    /\ UNCHANGED <<users, packages, packages_fts, pkg_seq, has_fts, now, workers>>

-----------------------------------------------------------------------------
(* Package write handlers, each served alone (one request at a time) *)

\* a handler that lets any user publish under any publisher
PublisherUnchecked(id, username) == FALSE

PublisherMismatch(id, username) == split(id, "/")[1] # username

\* a handler that overwrites without being asked to
ConflictIgnored(existing, force) == FALSE

Conflict(existing, force) == existing # {} /\ ~force

\* a handler that never compares the row's owner with the caller
OwnerUnchecked(row, user) == FALSE

NotOwner(row, user) == row.owner_id # user.id

PublishOutcome(cred, body, force) ==
    LET auth == get_current_user(cred)
        user == auth.user
        existing == SelectPackage(packages, body.id, body.version)
        row == CHOOSE r \in existing : TRUE
        db1 == IF existing # {} THEN DeletePackage(DB, body.id, body.version) ELSE DB
        ins == InsertPackage(db1, body.id, body.version, user.id, body)
    IN  IF auth.status # 200 THEN [status |-> 401, db |-> DB, replaced |-> FALSE]
        ELSE IF PublisherMismatch(body.id, user.username)
        THEN [status |-> 403, db |-> DB, replaced |-> FALSE]
        ELSE IF Conflict(existing, force) THEN [status |-> 409, db |-> DB, replaced |-> FALSE]
        ELSE IF existing # {} /\ NotOwner(row, user)
        THEN [status |-> 403, db |-> DB, replaced |-> FALSE]
        ELSE IF ~ins.ok THEN [status |-> 500, db |-> db1, replaced |-> existing # {}]
        ELSE [status |-> IF get_package(ins.db.packages, body.id, body.version).status = 200
                         THEN 201 ELSE 404,
              db |-> ins.db,
              replaced |-> existing # {}]

publish_package(cred, body, force) ==
    /\ workers = <<>>
    /\ LET out == PublishOutcome(cred, body, force)
       IN  /\ out.db.seq <= MaxRowId
           /\ packages' = out.db.packages
           /\ packages_fts' = out.db.fts
           /\ pkg_seq' = out.db.seq
           /\ last' = Response("publish_package", out.status, Caller(cred), body.id, body.version,
                               force, out.status = 201 /\ out.replaced)
    /\ UNCHANGED <<users, api_tokens, has_fts, now, workers>>

UnpublishOutcome(cred, pid, ver) ==
    LET auth == get_current_user(cred)
        user == auth.user
        rows == SelectPackage(packages, pid, ver)
        row == CHOOSE r \in rows : TRUE
    IN  IF auth.status # 200 THEN [status |-> 401, db |-> DB]
        ELSE IF rows = {} THEN [status |-> 404, db |-> DB]
        ELSE IF NotOwner(row, user) THEN [status |-> 403, db |-> DB]
        ELSE [status |-> 204, db |-> DeletePackage(DB, pid, ver)]

unpublish_package(cred, pid, ver) ==
    /\ workers = <<>>
    /\ LET out == UnpublishOutcome(cred, pid, ver)
       IN  /\ packages' = out.db.packages
           /\ packages_fts' = out.db.fts
           /\ pkg_seq' = out.db.seq
           /\ last' = Response("unpublish_package", out.status, Caller(cred), pid, ver,
                               FALSE, out.status = 204)
    /\ UNCHANGED <<users, api_tokens, has_fts, now, workers>>

Tick ==
    /\ now < MaxTime
    /\ now' = now + 1
    /\ last' = Idle
    /\ UNCHANGED <<users, api_tokens, packages, packages_fts, pkg_seq, has_fts, workers>>

-----------------------------------------------------------------------------
(* Request validation: the pydantic models of models.py, whose validators    *)
(* run when the framework builds the handler's body argument.                *)

\* the characters of the class [a-z0-9], and of [a-f0-9]
AZ09 ==
    {"a", "b", "c", "d", "e", "f", "g", "h", "i", "j", "k", "l", "m", "n", "o", "p", "q",
     "r", "s", "t", "u", "v", "w", "x", "y", "z",
     "0", "1", "2", "3", "4", "5", "6", "7", "8", "9"}
AF09 == {"a", "b", "c", "d", "e", "f", "0", "1", "2", "3", "4", "5", "6", "7", "8", "9"}

\* re's $ without MULTILINE: the end of the string, or the place just before a
\* newline that ends the string. The strings a pattern ^...$ is matched against
BeforeDollar(v) ==
    {v} \cup (IF v # <<>> /\ v[Len(v)] = "\n" THEN {SubSeq(v, 1, Len(v) - 1)} ELSE {})

\* re.match(r"^[a-z0-9][a-z0-9_-]{1,29}$", v)
validate_username(v) ==
    \E t \in BeforeDollar(v) :
        /\ Len(t) >= 2 /\ Len(t) <= 30
        /\ t[1] \in AZ09
        /\ \A i \in 2..Len(t) : t[i] \in AZ09 \cup {"_", "-"}

\* len(v) >= 8
validate_password(v) == Len(v) >= 8

\* [a-z0-9]([a-z0-9-]*[a-z0-9])? for _SLUG, with the dot for _PUBLISHER
SlugMatch(t, inner) ==
    /\ t # <<>>
    /\ t[1] \in AZ09 /\ t[Len(t)] \in AZ09
    /\ \A i \in 1..Len(t) : t[i] \in AZ09 \cup inner

\* ID_PATTERN.match(v): no class of the pattern holds "/"
validate_id(v) ==
    \E t \in BeforeDollar(v) :
        LET parts == split(t, "/")
        IN  /\ Len(parts) = 3
            /\ SlugMatch(parts[1], {".", "-"})
            /\ SlugMatch(parts[2], {"-"})
            /\ SlugMatch(parts[3], {"-"})

\* CHECKSUM_PATTERN.match(v) for a checksum that is given
validate_checksum(v) ==
    \/ v = None
    \/ \E t \in BeforeDollar(v[1]) :
          LET parts == split(t, ":")
          IN  /\ Len(parts) = 2
              /\ parts[1] # <<>> /\ \A i \in 1..Len(parts[1]) : parts[1][i] \in AZ09
              /\ parts[2] # <<>> /\ \A i \in 1..Len(parts[2]) : parts[2][i] \in AF09

validate_sources(v) == v # <<>>

RegisterIn(username, password) == validate_username(username) /\ validate_password(password)

PackageIn(body) ==
    /\ validate_id(body.id)
    /\ validate_sources(body.sources)
    /\ \A i \in 1..Len(body.sources) : validate_checksum(body.sources[i].checksum)

\* POST /api/auth/register: 422 when the body is not a RegisterIn
post_register(username, password) ==
    IF RegisterIn(username, password)
    THEN register(username, password)
    ELSE /\ last' = Response("register", 422, NoUser, NoId, NoVersion, FALSE, FALSE)
         /\ UNCHANGED <<users, api_tokens, packages, packages_fts, pkg_seq, has_fts, now,
                        workers>>

\* POST /api/v1/packages: the dependency get_current_user is resolved first and
\* its 401 ends the request; then 422 when the body is not a PackageIn
post_packages(cred, body, force) ==
    IF Authenticated(cred) /\ ~PackageIn(body)
    THEN /\ workers = <<>>
         /\ last' = Response("publish_package", 422, Caller(cred), body.id, body.version,
                             force, FALSE)
         /\ UNCHANGED <<users, api_tokens, packages, packages_fts, pkg_seq, has_fts, now,
                        workers>>
    ELSE publish_package(cred, body, force)

-----------------------------------------------------------------------------
(* The same handlers as the worker threads run them: every handler uses the *)
(* one connection _conn (check_same_thread=False), so each db.execute is a  *)
(* step of its own, other requests' statements run between two of them, and  *)
(* a statement's effect is visible to every request before db.commit().      *)

Workers == {"w1", "w2"}

NoBody == [id |-> NoId, version |-> NoVersion]
IdleWorker ==
    [pc |-> "idle", op |-> "none", cred |-> NoCred, body |-> NoBody, force |-> FALSE,
     user |-> NoUser, found |-> FALSE, deleted |-> FALSE, status |-> 0]

InFlightPublishes ==
    Cardinality({w \in Workers : workers[w].op = "publish_package" /\ workers[w].pc # "done"})

Finish(w, status) ==
    workers' = [workers EXCEPT ![w].pc = "done", ![w].status = status]

Goto(w, pc) == workers' = [workers EXCEPT ![w].pc = pc]

\* the request arrives; Depends(get_current_user) and the publisher check run
ReceivePublish(w, cred, body, force) ==
    /\ workers[w].pc = "idle"
    /\ pkg_seq + InFlightPublishes < MaxRowId
    /\ LET auth == get_current_user(cred)
           req == [IdleWorker EXCEPT !.op = "publish_package", !.cred = cred,
                                     !.body = body, !.force = force, !.user = auth.user]
       IN  workers' = [workers EXCEPT ![w] =
               IF auth.status # 200 THEN [req EXCEPT !.pc = "done", !.status = 401]
               ELSE IF PublisherMismatch(body.id, auth.user.username)
               THEN [req EXCEPT !.pc = "done", !.status = 403]
               ELSE [req EXCEPT !.pc = "select"]]
    /\ UNCHANGED <<users, api_tokens, packages, packages_fts, pkg_seq, has_fts, now, last>>

ReceiveUnpublish(w, cred, pid, ver) ==
    /\ workers[w].pc = "idle"
    /\ LET auth == get_current_user(cred)
           req == [IdleWorker EXCEPT !.op = "unpublish_package", !.cred = cred,
                                     !.body = [id |-> pid, version |-> ver],
                                     !.user = auth.user]
       IN  workers' = [workers EXCEPT ![w] =
               IF auth.status # 200 THEN [req EXCEPT !.pc = "done", !.status = 401]
               ELSE [req EXCEPT !.pc = "select"]]
    /\ UNCHANGED <<users, api_tokens, packages, packages_fts, pkg_seq, has_fts, now, last>>

ReceiveGet(w, pid, ver) ==
    /\ workers[w].pc = "idle"
    /\ workers' = [workers EXCEPT ![w] =
           [IdleWorker EXCEPT !.op = "get_package", !.pc = "fetch",
                              !.body = [id |-> pid, version |-> ver]]]
    /\ UNCHANGED <<users, api_tokens, packages, packages_fts, pkg_seq, has_fts, now, last>>

\* SELECT owner_id FROM packages WHERE package_id = ? AND version = ?
SelectExisting(w) ==
    /\ workers[w].pc = "select"
    /\ LET me == workers[w]
           existing == SelectPackage(packages, me.body.id, me.body.version)
           row == CHOOSE r \in existing : TRUE
       IN  IF me.op = "publish_package"
           THEN IF Conflict(existing, me.force) THEN Finish(w, 409)
                ELSE IF existing # {} /\ NotOwner(row, me.user) THEN Finish(w, 403)
                ELSE workers' = [workers EXCEPT
                        ![w].pc = IF existing # {} THEN "delete" ELSE "insert",
                        ![w].found = existing # {}]
           ELSE IF existing = {} THEN Finish(w, 404)
                ELSE IF NotOwner(row, me.user) THEN Finish(w, 403)
                ELSE workers' = [workers EXCEPT ![w].pc = "delete", ![w].found = TRUE]
    /\ UNCHANGED <<users, api_tokens, packages, packages_fts, pkg_seq, has_fts, now, last>>

\* DELETE FROM packages WHERE package_id = ? AND version = ?
\* deleted is whether the statement removed a row (its rowcount)
ExecDelete(w) ==
    /\ workers[w].pc = "delete"
    /\ LET me == workers[w]
           db == DeletePackage(DB, me.body.id, me.body.version)
       IN  /\ packages' = db.packages
           /\ packages_fts' = db.fts
           /\ pkg_seq' = db.seq
           /\ workers' = [workers EXCEPT
                  ![w].pc = IF me.op = "publish_package" THEN "insert" ELSE "commit",
                  ![w].deleted = db.packages # packages]
    /\ UNCHANGED <<users, api_tokens, has_fts, now, last>>

\* INSERT INTO packages (package_id, version, owner_id, data) VALUES (?, ?, ?, ?)
\* sqlite3.IntegrityError is caught nowhere: the request ends as a server error
ExecInsert(w) ==
    /\ workers[w].pc = "insert"
    /\ LET me == workers[w]
           ins == InsertPackage(DB, me.body.id, me.body.version, me.user.id, me.body)
       IN  /\ packages' = ins.db.packages
           /\ packages_fts' = ins.db.fts
           /\ pkg_seq' = ins.db.seq
           /\ IF ins.ok THEN Goto(w, "commit") ELSE Finish(w, 500)
    /\ UNCHANGED <<users, api_tokens, has_fts, now, last>>

\* db.commit(): the statements were already visible on the shared connection
Commit(w) ==
    /\ workers[w].pc = "commit"
    /\ IF workers[w].op = "publish_package" THEN Goto(w, "fetch") ELSE Finish(w, 204)
    /\ UNCHANGED <<users, api_tokens, packages, packages_fts, pkg_seq, has_fts, now, last>>

\* get_package's SELECT, as the handler of a GET or as publish_package's return value
Fetch(w) ==
    /\ workers[w].pc = "fetch"
    /\ LET me == workers[w]
           got == get_package(packages, me.body.id, me.body.version)
       IN  Finish(w, IF got.status = 200 /\ me.op = "publish_package" THEN 201
                     ELSE got.status)
    /\ UNCHANGED <<users, api_tokens, packages, packages_fts, pkg_seq, has_fts, now, last>>

\* the response is sent and the thread returns to the pool
Respond(w) ==
    /\ workers[w].pc = "done"
    /\ workers' = [workers EXCEPT ![w] = IdleWorker]
    /\ UNCHANGED <<users, api_tokens, packages, packages_fts, pkg_seq, has_fts, now, last>>

ConcKeys == {<<AlicePkg, V1>>}
ConcBodies == {b \in Bodies : <<b.id, b.version>> \in ConcKeys}

\* a running server: both users registered and logged in, no package published
InitConc ==
    /\ users = {[id |-> 1, username |-> Alice, password_hash |-> hash_password(GoodPassword)],
                [id |-> 2, username |-> Bob, password_hash |-> hash_password(GoodPassword)]}
    /\ api_tokens = {[user_id |-> 1, token |-> "t1", expires_at |-> TokenTTL],
                     [user_id |-> 2, token |-> "t2", expires_at |-> TokenTTL]}
    /\ packages = {}
    /\ packages_fts = {}
    /\ pkg_seq = 0
    /\ has_fts \in BOOLEAN
    /\ now = 0
    /\ last = Idle
    /\ workers = [w \in Workers |-> IdleWorker]

NextConc ==
    \E w \in Workers :
        \/ \E c \in Credentials, b \in ConcBodies, f \in BOOLEAN : ReceivePublish(w, c, b, f)
        \/ \E c \in Credentials, k \in ConcKeys : ReceiveUnpublish(w, c, k[1], k[2])
        \/ \E k \in ConcKeys : ReceiveGet(w, k[1], k[2])
        \/ SelectExisting(w)
        \/ ExecDelete(w)
        \/ ExecInsert(w)
        \/ Commit(w)
        \/ Fetch(w)
        \/ Respond(w)

SpecConc == InitConc /\ [][NextConc]_vars

-----------------------------------------------------------------------------
(* A running server, with or without FTS5, on which the two logged-in users  *)
(* publish tagged payloads, one request at a time and within one second.     *)

InitSearch ==
    /\ users = {[id |-> 1, username |-> Alice, password_hash |-> hash_password(GoodPassword)],
                [id |-> 2, username |-> Bob, password_hash |-> hash_password(GoodPassword)]}
    /\ api_tokens = {[user_id |-> 1, token |-> "t1", expires_at |-> TokenTTL],
                     [user_id |-> 2, token |-> "t2", expires_at |-> TokenTTL]}
    /\ packages = {}
    /\ packages_fts = {}
    /\ pkg_seq = 0
    /\ has_fts \in BOOLEAN
    /\ now = 0
    /\ last = Idle
    /\ workers = <<>>

NextSearch ==
    \/ \E c \in TokenValues, b \in SearchBodies, f \in BOOLEAN : publish_package(c, b, f)
    \/ \E c \in TokenValues, k \in Keys : unpublish_package(c, k[1], k[2])

SpecSearch == InitSearch /\ [][NextSearch]_vars

-----------------------------------------------------------------------------
(* Accounts and credentials on a new database: registrations (Alice first),  *)
(* logins with the right and a wrong password, refreshes, the passing of     *)
(* time, and the publish and unpublish of one package version.               *)

AuthBody == Body(AlicePkg, V1, TitleRain)

NextAuth ==
    \/ Tick
    \/ \E u \in Usernames : (u = Bob => users # {}) /\ register(u, GoodPassword)
    \/ \E u \in Usernames, p \in Passwords, t \in AuthTokens : get_token(u, p, t)
    \/ \E c \in AuthCredentials, t \in AuthTokens : refresh_token(c, t)
    \/ \E c \in AuthCredentials, f \in BOOLEAN : publish_package(c, AuthBody, f)
    \/ \E c \in AuthCredentials : unpublish_package(c, AuthBody.id, AuthBody.version)

-----------------------------------------------------------------------------
(* Requests with bodies the validators accept and bodies they refuse, on a   *)
(* new database: registrations, logins and publishes, one request at a time. *)

NextValid ==
    \/ \E u \in UsernameInputs, p \in PasswordInputs : post_register(u, p)
    \/ \E u \in UsernameInputs : get_token(u, GoodPassword, TokenDrawn(u))
    \/ \E c \in Credentials, b \in PackageInputs, f \in BOOLEAN : post_packages(c, b, f)

-----------------------------------------------------------------------------
(* init_db on a new database file, in a build of SQLite that has FTS5.      *)
(* The requests explored: Alice is the first to register, each user logs in  *)
(* with the right password, and generate_token draws one value per user.     *)

Init ==
    /\ users = {}
    /\ api_tokens = {}
    /\ packages = {}
    /\ packages_fts = {}
    /\ pkg_seq = 0
    /\ has_fts = TRUE
    /\ now = 0
    /\ last = Idle
    /\ workers = <<>>

Next ==
    \/ Tick
    \/ \E u \in Usernames : (u = Bob => users # {}) /\ register(u, GoodPassword)
    \/ \E u \in Usernames : get_token(u, GoodPassword, TokenDrawn(u))
    \/ \E c \in Credentials, b \in Bodies, f \in BOOLEAN : publish_package(c, b, f)
    \/ \E c \in Credentials, k \in Keys : unpublish_package(c, k[1], k[2])

Spec == Init /\ [][Next]_vars

SpecAuth == Init /\ [][NextAuth]_vars

SpecValid == Init /\ [][NextValid]_vars

-----------------------------------------------------------------------------
(* Properties *)

Stored(pkgs, id, version) == SelectPackage(pkgs, id, version) # {}

\* C1: in every reachable state, also between the statements of concurrent
\* publish and unpublish requests, the packages table holds at most one row
\* for each (package identifier, version) pair.
C1_OneRecordPerKey ==
    \A a, b \in packages :
        (a.package_id = b.package_id /\ a.version = b.version) => a = b

\* a second INSERT for a stored key was refused, and the key has its one row
C1_Witness ==
    \E w \in Workers :
        /\ workers[w].op = "publish_package"
        /\ workers[w].status = 500
        /\ Cardinality(SelectPackage(packages, workers[w].body.id, workers[w].body.version)) = 1

\* C2: with the FTS5 index available, after every request the rowids of
\* packages_fts are exactly the ids of packages, and every stored row has
\* exactly one document, the one built from its current payload.
C2_IndexMirrorsStore ==
    has_fts =>
        /\ {d.rowid : d \in packages_fts} = {r.id : r \in packages}
        /\ Cardinality(packages_fts) = Cardinality(packages)
        /\ \A r \in packages : {d \in packages_fts : d.rowid = r.id} = {FtsDoc(r)}

\* a force-overwrite has replaced a row while another row is stored
C2_Witness ==
    /\ has_fts
    /\ last.op = "publish_package" /\ last.status = 201 /\ last.replaced
    /\ Cardinality(packages) = 2

\* C3: a publish with force=false of a stored (identifier, version) by its
\* owner answers 409 Conflict and leaves the stored row (payload, owner,
\* publication timestamp) and the search index unchanged.
C3_RepublishConflicts ==
    [][(last'.op = "publish_package" /\ ~last'.force) =>
          \A c \in Credentials, b \in Bodies :
              ( /\ Authenticated(c)
                /\ \E r \in SelectPackage(packages, b.id, b.version) :
                      r.owner_id = Caller(c).id
                /\ publish_package(c, b, FALSE) )
              => /\ last'.status = 409
                 /\ UNCHANGED <<packages, packages_fts, pkg_seq>>]_vars

C3_Witness ==
    /\ last.op = "publish_package" /\ last.status = 409 /\ ~last.force
    /\ Stored(packages, last.id, last.version)

\* every payload any read path returns for the key of body is body itself
OnlyPayload(pkgs, fts, body) ==
    LET mine(data) == data.id = body.id /\ data.version = body.version
        all == get_all_versions(pkgs, body.id).versions
        latest == get_latest(pkgs, body.id).data
    IN  /\ \A i \in 1..Len(all) : mine(all[i].data) => all[i].data = body
        /\ \A i \in 1..Len(latest) : mine(latest[i]) => latest[i] = body
        /\ \A u \in users : \A r \in _packages_for_user(pkgs, u.id) :
              mine(r.data) => r.data = body
        /\ \A p \in PublisherInputs : \A r \in get_publisher(pkgs, p).rows :
              mine(r.data) => r.data = body
        /\ \A p \in PublisherInputs, n \in NamespaceInputs :
              \A r \in get_namespace(pkgs, p, n).rows : mine(r.data) => r.data = body
        /\ \A q \in Queries \cup {NoQuery} : \A r \in list_packages(pkgs, fts, q) :
              mine(r.data) => r.data = body

\* C4: every publish with force=true by the user the identifier belongs to
\* succeeds, the first as the second; afterwards get_package returns the
\* payload just sent, one row is stored for the key, and no lookup, listing
\* or search returns another payload for it.
C4_ForceOverwriteReplaces ==
    [][(last'.op = "publish_package" /\ last'.force) =>
          \A c \in Credentials, b \in Bodies :
              ( /\ b.id = last'.id /\ b.version = last'.version
                /\ Authenticated(c)
                /\ Caller(c).username = split(b.id, "/")[1]
                /\ publish_package(c, b, TRUE) )
              => /\ last'.status = 201
                 /\ get_package(packages', b.id, b.version) =
                        [status |-> 200, data |-> Some(b)]
                 /\ Cardinality(SelectPackage(packages', b.id, b.version)) = 1
                 /\ OnlyPayload(packages', packages_fts', b)]_vars

\* a force publish has replaced a row that a publish had itself written over
\* another (the key's row is at least the third inserted)
C4_Witness ==
    /\ last.op = "publish_package" /\ last.force /\ last.status = 201 /\ last.replaced
    /\ \E r \in SelectPackage(packages, last.id, last.version) :
          r.id >= 3 /\ r.data.title = TitleSun
    /\ Cardinality(packages) = 1

\* C5: a publish by an authenticated user whose username is not the publisher
\* segment of the identifier answers 403, with or without force, stored key or
\* not, and leaves packages and the index unchanged.
C5_WrongPublisherForbidden ==
    [][last'.op = "publish_package" =>
          \A c \in Credentials, b \in Bodies, f \in BOOLEAN :
              ( /\ b.id = last'.id /\ b.version = last'.version /\ f = last'.force
                /\ Authenticated(c)
                /\ Caller(c).username # split(b.id, "/")[1]
                /\ publish_package(c, b, f) )
              => /\ last'.status = 403
                 /\ UNCHANGED <<packages, packages_fts, pkg_seq>>]_vars

\* a user was refused a forced publish under another user's stored key
C5_Witness ==
    /\ last.op = "publish_package" /\ last.status = 403 /\ last.force
    /\ last.caller # <<>> /\ last.caller # split(last.id, "/")[1]
    /\ Stored(packages, last.id, last.version)

\* C6: an authenticated unpublish answers 404 when the key is not stored, 403
\* when its row belongs to another user, and otherwise 204 after removing that
\* one row and its document; nothing else changes in any of the three cases.
C6_UnpublishCases ==
    [][last'.op = "unpublish_package" =>
          \A c \in Credentials, k \in Keys :
              ( /\ k[1] = last'.id /\ k[2] = last'.version
                /\ Authenticated(c)
                /\ unpublish_package(c, k[1], k[2]) )
              => LET rows == SelectPackage(packages, k[1], k[2])
                 IN  IF rows = {}
                     THEN last'.status = 404 /\ UNCHANGED <<packages, packages_fts, pkg_seq>>
                     ELSE IF \E r \in rows : r.owner_id # Caller(c).id
                     THEN last'.status = 403 /\ UNCHANGED <<packages, packages_fts, pkg_seq>>
                     ELSE /\ last'.status = 204
                          /\ Cardinality(rows) = 1
                          /\ packages' = packages \ rows
                          /\ packages_fts' =
                                {d \in packages_fts : \A r \in rows : d.rowid # r.id}
                          /\ pkg_seq' = pkg_seq]_vars

\* a user was refused the removal of another user's row, which is still stored
C6_Witness ==
    /\ last.op = "unpublish_package" /\ last.status = 403
    /\ \E r \in SelectPackage(packages, last.id, last.version) :
          OwnerName(r) # last.caller
    /\ Cardinality(packages) >= 2

\* no read path shows the key: get_package, get_all_versions, get_latest, the
\* listings by owner, publisher and namespace, the candidates of suggest_packages
\* (an identifier stays a candidate only through another stored version), and
\* list_packages with or without a text query
Hidden(pkgs, fts, pid, ver) ==
    LET mine(data) == data.id = pid /\ data.version = ver
        all == get_all_versions(pkgs, pid).versions
        latest == get_latest(pkgs, pid).data
    IN  /\ get_package(pkgs, pid, ver) = [status |-> 404, data |-> None]
        /\ \A i \in 1..Len(all) : ~mine(all[i].data)
        /\ \A i \in 1..Len(latest) : ~mine(latest[i])
        /\ \A u \in users : \A r \in _packages_for_user(pkgs, u.id) : ~mine(r.data)
        /\ \A p \in PublisherInputs : \A r \in get_publisher(pkgs, p).rows : ~mine(r.data)
        /\ \A p \in PublisherInputs, n \in NamespaceInputs :
              \A r \in get_namespace(pkgs, p, n).rows : ~mine(r.data)
        /\ pid \in all_ids(pkgs) => \E v \in Versions \ {ver} : Stored(pkgs, pid, v)
        /\ \A q \in Queries \cup {NoQuery} :
              \A r \in list_packages(pkgs, fts, q) : ~mine(r.data)

\* C7: an unpublish answered 204 leaves the key unstored; a key that is not
\* stored is shown by no read path; it is stored again only by a publish of it
\* answered 201; and a key is found by get_package exactly when a search on a
\* word of its identifier finds it, no other search finding a key get_package
\* does not.
C7_UnpublishedStaysHidden ==
    /\ [][(last'.op = "unpublish_package" /\ last'.status = 204) =>
             ~Stored(packages', last'.id, last'.version)]_vars
    /\ [](\A k \in Keys :
             ~Stored(packages, k[1], k[2]) => Hidden(packages, packages_fts, k[1], k[2]))
    /\ [][\A k \in Keys :
             (~Stored(packages, k[1], k[2]) /\ Stored(packages', k[1], k[2])) =>
                 /\ last'.op = "publish_package" /\ last'.status = 201
                 /\ last'.id = k[1] /\ last'.version = k[2]]_vars
    /\ [](\A k \in Keys :
             LET got == get_package(packages, k[1], k[2]).status = 200
                 hit(q) == \E r \in list_packages(packages, packages_fts, q) :
                              r.package_id = k[1] /\ r.version = k[2]
             IN  /\ got <=> hit(QDataset)
                 /\ \A q \in Queries : hit(q) => got)

\* a version was unpublished while another version of the identifier and its
\* document stay stored
C7_Witness ==
    /\ last.op = "unpublish_package" /\ last.status = 204
    /\ ~Stored(packages, last.id, last.version)
    /\ last.id \in all_ids(packages)
    /\ Cardinality(packages_fts) = 1

\* C8: with the index, every row a text query returns is matched on the
\* document of its current payload, a key never has two documents to match, and
\* once the INSERT of a force overwrite has run a query returns the key exactly
\* when it matches the new payload, so not on text only the old one had.
C8_SearchFollowsOverwrite ==
    /\ [](has_fts =>
             /\ \A q \in Queries : \A r \in list_packages(packages, packages_fts, q) :
                   FtsMatch(FtsDoc(r), _fts_query(q))
             /\ \A k \in ConcKeys :
                   Cardinality({d \in packages_fts : \E r \in SelectPackage(packages, k[1], k[2]) :
                                   d.rowid = r.id}) <= 1)
    /\ [][\A w \in Workers :
             ( /\ has_fts
               /\ workers[w].op = "publish_package" /\ workers[w].found
               /\ ExecInsert(w) /\ workers'[w].pc = "commit" )
             => \A q \in Queries :
                   (\E r \in list_packages(packages', packages_fts', q) :
                       r.package_id = workers[w].body.id /\ r.version = workers[w].body.version)
                   <=> \E r \in packages' :
                          r.data = workers[w].body /\ FtsMatch(FtsDoc(r), _fts_query(q))]_vars

\* one request published the key with the title Rain and another has just
\* inserted its overwrite with the title Sun
C8_Witness ==
    /\ has_fts
    /\ \E w, o \in Workers :
          /\ workers[o].op = "publish_package" /\ workers[o].pc = "done"
          /\ workers[o].status = 201 /\ workers[o].body.title = TitleRain
          /\ workers[w].op = "publish_package" /\ workers[w].pc = "commit"
          /\ workers[w].found /\ workers[w].body.title = TitleSun
          /\ \E r \in packages : r.data = workers[w].body
                /\ r \in list_packages(packages, packages_fts, QSun)
                /\ r \notin list_packages(packages, packages_fts, QRain)

\* C9: a get_package whose SELECT runs while a force overwrite of the same key
\* is between its DELETE and its INSERT still finds the record.
C9_OverwriteAtomicForReads ==
    [][\A r, w \in Workers :
          ( /\ workers[r].op = "get_package"
            /\ workers[w].op = "publish_package" /\ workers[w].found
            /\ workers[w].pc = "insert"
            /\ workers[w].body.id = workers[r].body.id
            /\ workers[w].body.version = workers[r].body.version
            /\ Fetch(r) )
          => workers'[r].status = 200]_vars

\* C10: a publish with force=false that ends while another such publish of the
\* same key, which also found the key new, is past its SELECT ends in 201 or
\* 409, and one row is stored for the key.
C10_ConcurrentPublishConflicts ==
    [][\A w, o \in Workers :
          ( /\ w # o
            /\ workers[w].op = "publish_package" /\ ~workers[w].force
            /\ workers[o].op = "publish_package" /\ ~workers[o].force
            /\ workers[o].body.id = workers[w].body.id
            /\ workers[o].body.version = workers[w].body.version
            /\ ~workers[o].found
            /\ workers[o].pc \in {"insert", "commit", "fetch", "done"}
            /\ workers[w].pc \in {"select", "insert", "commit", "fetch"}
            /\ workers'[w].pc = "done" )
          => /\ workers'[w].status \in {201, 409}
             /\ Cardinality(SelectPackage(packages', workers[w].body.id,
                                          workers[w].body.version)) = 1]_vars

\* a stored credential has this token value and its expiry is still ahead
Live(cred) == \E t \in api_tokens : t.token = cred /\ now < t.expires_at

\* C11: get_current_user answers 200 exactly for a token value that a stored
\* credential holds and whose expiry is strictly after the current time, and
\* then returns the id and username of the user the credential is bound to;
\* no token, a token never issued and an expired token answer 401.
C11_AuthenticateLiveCredential ==
    \A cred \in Credentials :
        LET res == get_current_user(cred)
        IN  IF Live(cred)
            THEN /\ res.status = 200
                 /\ \E t \in api_tokens, u \in users :
                       /\ t.token = cred /\ u.id = t.user_id
                       /\ res.user = [id |-> u.id, username |-> u.username]
            ELSE res = [status |-> 401, user |-> NoUser]

\* one credential has reached its expiry at this very instant, another is live
C11_Witness ==
    /\ \E t \in api_tokens : t.expires_at = now /\ get_current_user(t.token).status = 401
    /\ \E t \in api_tokens : t.expires_at > now /\ get_current_user(t.token).status = 200
    /\ get_current_user(NoCred).status = 401

\* C12: a publish or unpublish sent with no credential, or with a token that
\* is not stored or is expired, answers 401 and changes no table, whatever the
\* key and its owner; 403 is answered only to the user of a live credential.
C12_UnauthenticatedBeforeForbidden ==
    [][last'.op \in {"publish_package", "unpublish_package"} =>
          /\ last'.status = 403 =>
                \E c \in Credentials, u \in users, t \in api_tokens :
                    /\ Live(c) /\ t.token = c /\ u.id = t.user_id
                    /\ u.username = last'.caller
          /\ \A c \in Credentials : ~Live(c) =>
                /\ \A b \in Bodies :
                      ( /\ b.id = last'.id /\ b.version = last'.version
                        /\ publish_package(c, b, last'.force) )
                      => /\ last'.status = 401
                         /\ UNCHANGED <<users, api_tokens, packages, packages_fts, pkg_seq>>
                /\ \A k \in Keys :
                      ( /\ k[1] = last'.id /\ k[2] = last'.version
                        /\ unpublish_package(c, k[1], k[2]) )
                      => /\ last'.status = 401
                         /\ UNCHANGED <<users, api_tokens, packages, packages_fts, pkg_seq>>]_vars

\* an unpublish of a stored key was answered 401 while its owner's credential
\* is expired
C12_Witness ==
    /\ last.op = "unpublish_package" /\ last.status = 401
    /\ \E r \in SelectPackage(packages, last.id, last.version) :
          \E t \in api_tokens : t.user_id = r.owner_id /\ t.expires_at <= now
    /\ \A c \in Credentials : ~Authenticated(c)

\* the rows stored under one package identifier
VersionsOf(pkgs, id) == {r \in pkgs : r.package_id = id}

\* C13: the owner of every stored row is the user whose username is the
\* publisher segment of the row's identifier (so all versions of an identifier
\* have one owner), and the rows under an identifier change only through a
\* publish or unpublish of that identifier sent by that user.
C13_OwnerIsPublisher ==
    /\ [](\A r \in packages : \E u \in users :
             u.id = r.owner_id /\ u.username = split(r.package_id, "/")[1])
    /\ [][\A id \in PackageIds :
             VersionsOf(packages', id) # VersionsOf(packages, id) =>
                 /\ last'.op \in {"publish_package", "unpublish_package"}
                 /\ last'.id = id
                 /\ last'.caller = split(id, "/")[1]]_vars

\* a logged-in user was refused a new version under an identifier of another
\* user, who has a version stored there
C13_Witness ==
    /\ last.op = "publish_package" /\ last.status = 403
    /\ last.caller # <<>> /\ last.caller # split(last.id, "/")[1]
    /\ ~Stored(packages, last.id, last.version)
    /\ VersionsOf(packages, last.id) # {}

\* C14: for an identifier with a stored version, get_all_versions returns
\* each stored version once and nothing else, a version published at a later
\* second before one published earlier and, within one second, the later
\* inserted first; get_latest returns the payload of the first of them.
C14_NewestFirst ==
    \A id \in PackageIds :
        LET rows == VersionsOf(packages, id)
            res == get_all_versions(packages, id)
            row(i) == CHOOSE r \in rows : r.version = res.versions[i].data.version
        IN  rows # {} =>
            /\ res.status = 200
            /\ Len(res.versions) = Cardinality(rows)
            /\ \A r \in rows : \E i \in 1..Len(res.versions) :
                  res.versions[i] = [data |-> r.data, published_at |-> r.published_at,
                                     owner |-> split(id, "/")[1]]
            /\ \A i, j \in 1..Len(res.versions) : i < j =>
                  \/ row(i).published_at > row(j).published_at
                  \/ row(i).published_at = row(j).published_at /\ row(i).id > row(j).id
            /\ get_latest(packages, id) =
                  [status |-> 200, data |-> Some(res.versions[1].data)]

\* two versions published in the same second, the lower version number being
\* the later insertion and so the latest
C14_Witness ==
    \E a, b \in VersionsOf(packages, AlicePkg) :
        /\ a.version = V1 /\ b.version = V2
        /\ a.published_at = b.published_at /\ a.id > b.id
        /\ get_latest(packages, AlicePkg).data = Some(a.data)
        /\ Len(get_all_versions(packages, AlicePkg).versions) = 2

\* some element of the row's tag list equals the filter, letter case aside
TaggedWith(r, tag) ==
    \E i \in 1..Len(r.data.tags) : Lower(r.data.tags[i]) = Lower(tag)

\* C15: a stored row passes a non-empty tag filter exactly when an element of
\* its tag list equals the filter value case-insensitively; nothing else in
\* the payload decides it.
C15_TagFilterExact ==
    \A r \in packages, t \in TagFilters :
        r \in ListRows(packages, packages_fts, NoQuery, t) <=> TaggedWith(r, t)

\* C16: with the index in place, every single-word text query selects the
\* same rows by the LIKE fallback as by the FTS5 match.
C16_FallbackEqualsIndex ==
    has_fts =>
        \A q \in Queries \cup {QInside} :
            {r \in JoinUsers(packages) : FallbackCondition(r, q)}
                = {r \in JoinUsers(packages) : IndexedCondition(r, packages_fts, q)}

BoundUser(cred) ==
    {[id |-> u.id, username |-> u.username] :
        u \in {u \in users : \E t \in api_tokens : t.token = cred /\ t.user_id = u.id}}

\* C18: get_token for a username that is not registered or with a password
\* that is not the user's answers 401 and stores no credential; answered 200
\* it has stored exactly one new credential, bound to that user, with a token
\* value no stored credential had; and every credential live before the call
\* still authenticates as the same user after it.
C18_IssueTokenFrame ==
    [][last'.op = "get_token" =>
          \A u \in Usernames, p \in Passwords, t \in AuthTokens :
              get_token(u, p, t) =>
                  /\ (~(\E x \in users : x.username = u) \/ p # GoodPassword) =>
                        last'.status = 401 /\ api_tokens' = api_tokens
                  /\ last'.status = 200 =>
                        \E new \in api_tokens' :
                            /\ new \notin api_tokens
                            /\ api_tokens' = api_tokens \cup {new}
                            /\ \A old \in api_tokens : old.token # new.token
                            /\ \E x \in users : x.username = u /\ x.id = new.user_id
                  /\ last'.status # 200 => api_tokens' = api_tokens
                  /\ \A c \in AuthTokens : Live(c) =>
                        /\ get_current_user(c)' = get_current_user(c)
                        /\ get_current_user(c).status = 200]_vars

\* a user with a live credential has logged in again and now holds two live
\* credentials
C18_Witness ==
    /\ last.op = "get_token" /\ last.status = 200
    /\ \E a, b \in api_tokens :
          a # b /\ a.user_id = b.user_id /\ Live(a.token) /\ Live(b.token)

\* C19: no step removes a stored credential or changes its token value, user
\* or expiry, time never runs backwards, and a credential whose expiry has
\* been reached does not authenticate: once expired, it fails ever after.
C19_CredentialReadOnly ==
    /\ [][\A t \in api_tokens : t \in api_tokens']_vars
    /\ [][now' >= now]_vars
    /\ [](\A t, o \in api_tokens : t.token = o.token => t = o)
    /\ [](\A t \in api_tokens : now >= t.expires_at => get_current_user(t.token).status = 401)

\* a credential has expired, its user has refreshed and logged in since, and a
\* package of theirs is stored
C19_Witness ==
    /\ \E t, o \in api_tokens :
          /\ t.user_id = o.user_id
          /\ now >= t.expires_at /\ now < o.expires_at
    /\ last.op = "refresh_token" /\ last.status = 200
    /\ packages # {}

\* C20: a refresh presented with a live credential, when the token value drawn
\* is not already stored, answers 200 and stores one new credential for the
\* same user, whose token value differs from the presented one and which
\* authenticates as that user; with no credential or an expired one it answers
\* 401 and stores nothing.
C20_RefreshIssuesNewCredential ==
    [][last'.op = "refresh_token" =>
          \A c \in AuthCredentials, t \in AuthTokens :
              refresh_token(c, t) =>
                  IF Live(c)
                  THEN IF \E old \in api_tokens : old.token = t
                       THEN last'.status = 500 /\ api_tokens' = api_tokens
                       ELSE /\ last'.status = 200
                            /\ \E new \in api_tokens' :
                                  /\ new \notin api_tokens
                                  /\ api_tokens' = api_tokens \cup {new}
                                  /\ new.token # c
                                  /\ {[id |-> new.user_id, username |-> last'.caller]}
                                        = BoundUser(c)
                                  /\ get_current_user(new.token)' =
                                        [status |-> 200,
                                         user |-> CHOOSE x \in BoundUser(c) : TRUE]
                  ELSE last'.status = 401 /\ api_tokens' = api_tokens]_vars

\* a refresh was answered 200 and the caller now holds two live credentials,
\* the presented one and the one the refresh issued
C20_Witness ==
    /\ last.op = "refresh_token" /\ last.status = 200
    /\ \E t, o \in api_tokens :
          /\ t.user_id = o.user_id /\ t # o
          /\ Live(t.token) /\ Live(o.token)
          /\ Caller(t.token).username = last.caller

\* C21: register with a username that is already present answers 409 and
\* changes no table; usernames are pairwise distinct in every state; and no
\* step removes a user or changes its id, username or password hash.
C21_UsersFixed ==
    /\ [](\A u, v \in users : u.username = v.username => u = v)
    /\ [][\A u \in users : u \in users']_vars
    /\ [][last'.op = "register" =>
             \A name \in Usernames :
                 (register(name, GoodPassword) /\ \E u \in users : u.username = name) =>
                     /\ last'.status = 409
                     /\ UNCHANGED <<users, api_tokens, packages, packages_fts>>]_vars

\* a registration was refused with 409 while two users and a credential are
\* stored
C21_Witness ==
    /\ last.op = "register" /\ last.status = 409
    /\ Cardinality(users) = 2
    /\ api_tokens # {}

\* the policies as the interface states them: a username of 2 to 30 lower-case
\* letters, digits, hyphens and underscores that starts with a letter or digit;
\* an identifier of three slugs; a checksum algorithm:hexdigest
UsernamePolicy(v) ==
    /\ Len(v) >= 2 /\ Len(v) <= 30
    /\ v[1] \in AZ09
    /\ \A i \in 1..Len(v) : v[i] \in AZ09 \cup {"_", "-"}

IdentifierPolicy(v) ==
    LET parts == split(v, "/")
    IN  /\ Len(parts) = 3
        /\ \A k \in 1..3 :
              /\ parts[k] # <<>>
              /\ \A i \in 1..Len(parts[k]) : parts[k][i] \in AZ09 \cup {".", "-"}

ChecksumPolicy(v) ==
    \/ v = None
    \/ LET parts == split(v[1], ":")
       IN  /\ Len(parts) = 2
           /\ parts[1] # <<>> /\ parts[2] # <<>>
           /\ \A i \in 1..Len(parts[1]) : parts[1][i] \in AZ09
           /\ \A i \in 1..Len(parts[2]) : parts[2][i] \in AF09

PackagePolicy(body) ==
    /\ IdentifierPolicy(body.id)
    /\ body.sources # <<>>
    /\ \A i \in 1..Len(body.sources) : ChecksumPolicy(body.sources[i].checksum)

\* C22: a registration whose username or password is outside the policy, and
\* a publish by an authenticated caller whose identifier, source list or
\* checksum is outside it, is answered 422 and leaves users, credentials,
\* package records and the search index as they were.
C22_InvalidRejected ==
    [][/\ last'.op = "register" =>
             \A u \in UsernameInputs, p \in PasswordInputs :
                 (post_register(u, p) /\ (~UsernamePolicy(u) \/ Len(p) < 8)) =>
                     /\ last'.status = 422
                     /\ UNCHANGED <<users, api_tokens, packages, packages_fts>>
       /\ last'.op = "publish_package" =>
             \A c \in TokenValues, b \in PackageInputs, f \in BOOLEAN :
                 (post_packages(c, b, f) /\ Authenticated(c) /\ ~PackagePolicy(b)) =>
                     /\ last'.status = 422
                     /\ UNCHANGED <<users, api_tokens, packages, packages_fts>>]_vars

\* C23: a publish without force of an (identifier, version) that is already
\* stored is answered 409 for every authenticated caller, whoever owns the
\* record and whatever the identifier's publisher segment is.
C23_ConflictDecidedFirst ==
    [][(last'.op = "publish_package" /\ ~last'.force) =>
          \A c \in TokenValues, b \in Bodies :
              (/\ publish_package(c, b, FALSE)
               /\ Authenticated(c)
               /\ Stored(packages, b.id, b.version)) => last'.status = 409]_vars

\* the response of a search that matched nothing
EmptyPage(limit, offset) ==
    [items |-> <<>>, total |-> 0, limit |-> limit, offset |-> offset,
     has_next |-> FALSE, has_prev |-> offset > 0]

\* C24: get_package answers 404 exactly when no row has the identifier and
\* version, get_latest and get_all_versions answer 404 exactly when no row has
\* the identifier, and they answer 200 otherwise; a search that matches no row,
\* on an empty registry or with a query no record holds, answers with items
\* empty and total 0.
C24_NotFoundOrEmptyList ==
    /\ \A k \in Keys :
          get_package(packages, k[1], k[2]).status =
              IF Stored(packages, k[1], k[2]) THEN 200 ELSE 404
    /\ \A id \in PackageIds :
          /\ get_latest(packages, id).status =
                IF VersionsOf(packages, id) = {} THEN 404 ELSE 200
          /\ get_all_versions(packages, id).status =
                IF VersionsOf(packages, id) = {} THEN 404 ELSE 200
          /\ get_all_versions(packages, id).status = 200 =>
                get_all_versions(packages, id).versions # <<>>
    /\ \A limit \in 1..MaxLimit, offset \in 0..MaxOffset :
          /\ ListPackages(packages, packages_fts, Some(QNothing), None, limit, offset)
                = {EmptyPage(limit, offset)}
          /\ packages = {} =>
                ListPackages(packages, packages_fts, None, None, limit, offset)
                    = {EmptyPage(limit, offset)}

\* the last version of a package has been unpublished while another package is
\* still stored
C24_Witness ==
    /\ last.op = "unpublish_package" /\ last.status = 204
    /\ VersionsOf(packages, last.id) = {}
    /\ packages # {}

\* the records a search returns when one page holds them all
Returned(q, tag) ==
    UNION {{p.items[i] : i \in 1..Len(p.items)} :
              p \in ListPackages(packages, packages_fts, q, tag, Cardinality(Keys), 0)}

\* C25: with a text query and a tag filter together, the search returns the
\* records that the text query alone returns and the tag filter alone returns
\* too, and no others; total counts them. This holds with the FTS index and on
\* the LIKE fallback.
C25_FiltersIntersect ==
    /\ Returned(Some(QRain), Some(TagSun))
          = Returned(Some(QRain), None) \cap Returned(None, Some(TagSun))
    /\ \A p \in ListPackages(packages, packages_fts, Some(QRain), Some(TagSun),
                             Cardinality(Keys), 0) :
          p.total = Cardinality(Returned(Some(QRain), Some(TagSun)))

\* without FTS, a record passes both filters while another passes the text
\* query only and a third the tag filter only
C25_Witness ==
    /\ ~has_fts
    /\ Cardinality(Returned(Some(QRain), Some(TagSun))) = 1
    /\ Cardinality(Returned(Some(QRain), None)) = 2
    /\ Cardinality(Returned(None, Some(TagSun))) = 2

\* C26: a search with q="" gives the responses of the search without q, and a
\* search with tag="" those of the search without tag, for every limit and
\* offset, and also when the other filter is in use.
C26_EmptyStringIsAbsent ==
    /\ \A limit \in 1..MaxLimit, offset \in 0..MaxOffset :
          /\ ListPackages(packages, packages_fts, Some(<<>>), None, limit, offset)
                = ListPackages(packages, packages_fts, None, None, limit, offset)
          /\ ListPackages(packages, packages_fts, None, Some(<<>>), limit, offset)
                = ListPackages(packages, packages_fts, None, None, limit, offset)
    /\ ListPackages(packages, packages_fts, Some(<<>>), Some(TagSun), Cardinality(Keys), 0)
          = ListPackages(packages, packages_fts, None, Some(TagSun), Cardinality(Keys), 0)
    /\ ListPackages(packages, packages_fts, Some(QRain), Some(<<>>), Cardinality(Keys), 0)
          = ListPackages(packages, packages_fts, Some(QRain), None, Cardinality(Keys), 0)

\* three records are stored, of which the text query and the tag filter each
\* leave some out
C26_Witness ==
    /\ Cardinality(Returned(Some(<<>>), Some(<<>>))) = 3
    /\ Cardinality(Returned(Some(QRain), Some(<<>>))) < 3
    /\ Cardinality(Returned(Some(<<>>), Some(TagSun))) < 3

\* sub occurs in text
Contains(text, sub) ==
    \E i \in 1..(Len(text) - Len(sub) + 1) : SubSeq(text, i, i + Len(sub) - 1) = sub

\* C27: without the FTS index a search with a text query answers as any other
\* search does, with the records whose serialized payload contains the query,
\* letter case aside, newest publication first.
C27_FallbackIsContainment ==
    ~has_fts =>
        \A q \in {QSun, QInside, QWild} :
            \A p \in ListPackages(packages, packages_fts, Some(q), None, Cardinality(Keys), 0) :
                /\ {p.items[i] : i \in 1..Len(p.items)} =
                      {_row_to_out(r) :
                          r \in {r \in JoinUsers(packages) :
                                    Contains(Lower(model_dump_json(r.data)), Lower(q))}}
                /\ p.total = Len(p.items)
                /\ \A i, j \in 1..Len(p.items) :
                      i < j => p.items[i].published_at >= p.items[j].published_at

\* C28: a search without text query and tag filter matches every stored
\* record: total is the number of rows of packages, a page large enough holds
\* them all, and the items are in descending order of publication time.
C28_UnfilteredListsAll ==
    \A p \in ListPackages(packages, packages_fts, None, None, Cardinality(Keys), 0) :
        /\ p.total = Cardinality(packages)
        /\ {p.items[i] : i \in 1..Len(p.items)} = {_row_to_out(r) : r \in packages}
        /\ Len(p.items) = Cardinality(packages)
        /\ \A i, j \in 1..Len(p.items) :
              i < j => p.items[i].published_at >= p.items[j].published_at

\* records published at different times, by different users, are stored
C28_Witness ==
    /\ last.op = "publish_package" /\ last.status = 201
    /\ \E a, b \in packages : a.published_at < b.published_at /\ a.owner_id # b.owner_id

\* C29: for every partial identifier and every n, each identifier that
\* suggest_packages returns is the identifier of a stored record, none is
\* returned twice, at most n are returned, and on the empty registry the list
\* is empty.
C29_SuggestionsAreStored ==
    \A q \in SuggestQueries, n \in 1..MaxSuggest :
        LET sug == suggest_packages(packages, q, n).suggestions
        IN  /\ \A i \in 1..Len(sug) : \E r \in packages : r.package_id = sug[i]
            /\ \A i, j \in 1..Len(sug) : i # j => sug[i] # sug[j]
            /\ Len(sug) <= n
            /\ packages = {} => sug = <<>>

\* two versions of one package and a second package are stored, both
\* identifiers are close to a query, and n = 1 returns one of them
C29_Witness ==
    /\ Cardinality(packages) = 3
    /\ Len(suggest_packages(packages, <<"s", "/", "w">>, MaxSuggest).suggestions) = 2
    /\ Len(suggest_packages(packages, <<"s", "/", "w">>, 1).suggestions) = 1

\* similarity of an identifier to the query, as a fraction, and its comparisons
AtLeast(x, y, q) == ratio(x, q)[1] * ratio(y, q)[2] >= ratio(y, q)[1] * ratio(x, q)[2]

\* C30: the identifiers returned have similarity at least 0.4 to the query;
\* no stored identifier left out at or above 0.4 is more similar than one
\* returned, and one is left out only when n are returned; they are listed
\* highest similarity first, and those of equal similarity in ascending
\* lexical order.
C30_RankedSuggestions ==
    \A q \in SuggestQueries, n \in 1..MaxSuggest :
        LET sug == suggest_packages(packages, q, n).suggestions
            returned == {sug[i] : i \in 1..Len(sug)}
            close == {x \in all_ids(packages) :
                         ratio(x, q)[1] * CutoffDen >= CutoffNum * ratio(x, q)[2]}
        IN  /\ returned \subseteq close
            /\ \A x \in close \ returned :
                  Len(sug) = n /\ \A y \in returned : AtLeast(y, x, q)
            /\ \A i, j \in 1..Len(sug) : i < j => AtLeast(sug[i], sug[j], q)
            /\ \A i, j \in 1..Len(sug) :
                  (i < j /\ AtLeast(sug[j], sug[i], q)) => StrLess(sug[i], sug[j])

\* C31: for every publisher value p and namespace value n, the publisher
\* listing returns exactly the stored records whose identifier starts with
\* p/ and the namespace listing exactly those starting with p/n/; each
\* answers 404 exactly when that set is empty.
C31_ListingsArePrefixes ==
    \A p \in PublisherInputs \cup {<<"a", "_">>}, n \in NamespaceInputs \cup {<<"_">>} :
        LET under(prefix) == {r \in JoinUsers(packages) : IsPrefix(prefix, r.package_id)}
            byPublisher == get_publisher(packages, p)
            byNamespace == get_namespace(packages, p, n)
        IN  /\ byPublisher.rows = under(p \o <<"/">>)
            /\ byPublisher.status = 404 <=> under(p \o <<"/">>) = {}
            /\ byNamespace.rows = under(p \o <<"/">> \o n \o <<"/">>)
            /\ byNamespace.status = 404 <=> under(p \o <<"/">> \o n \o <<"/">>) = {}

-----------------------------------------------------------------------------
(* A server that is restarted, on the same SQLite build or on one that has   *)
(* FTS5, and is read between the writes: the two users are logged in, Alice  *)
(* logs in again at a later second, and the payload of Bob's package has two *)
(* sources.                                                                  *)

\* a backfill that inserts no document
BackfillNothing(pkgs, fts) == fts

\* INSERT INTO packages_fts ... SELECT ... FROM packages p
\* WHERE p.id NOT IN (SELECT rowid FROM packages_fts)
_backfill_fts(pkgs, fts) ==
    fts \cup {FtsDoc(p) : p \in {p \in pkgs : \A d \in fts : d.rowid # p.id}}

\* init_db at startup: the schema is there already; _setup_fts creates the
\* index and its triggers when the build has FTS5 and _backfill_fts fills it,
\* both leaving the database as it is when FTS5 is missing
init_db(fts5) ==
    /\ workers = <<>>
    /\ has_fts => fts5
    /\ has_fts' = fts5
    /\ packages_fts' = IF fts5 THEN _backfill_fts(packages, packages_fts) ELSE packages_fts
    /\ last' = Response("init_db", 0, NoUser, NoId, NoVersion, FALSE, FALSE)
    /\ UNCHANGED <<users, api_tokens, packages, pkg_seq, now, workers>>

\* counters that take every version to have one source
OneSourceEach(pkgs) ==
    [datasets |-> Cardinality(pkgs),
     publishers |-> Cardinality({split(r.package_id, "/")[1] : r \in pkgs}),
     sources |-> Cardinality(pkgs)]

\* COUNT(*), COUNT(DISTINCT substr(package_id, 1, instr(package_id, '/') - 1))
\* and COALESCE(SUM(json_array_length(json_extract(data, '$.sources'))), 0)
get_stats(pkgs) ==
    LET instr(s, c) == IF \E i \in 1..Len(s) : s[i] = c
                       THEN CHOOSE i \in 1..Len(s) : s[i] = c /\ \A j \in 1..(i - 1) : s[j] # c
                       ELSE 0
        RECURSIVE SUM(_)
        SUM(rows) == IF rows = {} THEN 0
                     ELSE LET r == CHOOSE r \in rows : TRUE
                          IN  Len(r.data.sources) + SUM(rows \ {r})
    IN  [datasets |-> Cardinality(pkgs),
         publishers |-> Cardinality({SubSeq(r.package_id, 1, instr(r.package_id, "/") - 1) :
                                        r \in pkgs}),
         sources |-> SUM(pkgs)]

\* the GET handlers of routes/packages.py, which run SELECT statements only
packages_read(route, pid) ==
    /\ workers = <<>>
    /\ last' = Response(route,
                        CASE route = "get_package" -> get_package(packages, pid, V1).status
                          [] route = "get_latest" -> get_latest(packages, pid).status
                          [] route = "get_all_versions" -> get_all_versions(packages, pid).status
                          [] OTHER -> 200,
                        NoUser, NoId, NoVersion, FALSE, FALSE)
    /\ UNCHANGED <<users, api_tokens, packages, packages_fts, pkg_seq, has_fts, now, workers>>

\* the GET handlers of routes/publishers.py
publishers_read(route, publisher) ==
    /\ workers = <<>>
    /\ last' = Response(route,
                        CASE route = "get_publisher" -> get_publisher(packages, publisher).status
                          [] route = "get_namespace" ->
                                get_namespace(packages, publisher, <<"s">>).status
                          [] OTHER -> 200,
                        NoUser, NoId, NoVersion, FALSE, FALSE)
    /\ UNCHANGED <<users, api_tokens, packages, packages_fts, pkg_seq, has_fts, now, workers>>

\* a bearer lookup that deletes the tokens it finds expired
ExpiredTokensPruned(route, username, cred) ==
    /\ workers = <<>>
    /\ api_tokens' = {t \in api_tokens : t.expires_at > now}
    /\ last' = Response(route, get_current_user(cred).status, Caller(cred),
                        NoId, NoVersion, FALSE, FALSE)
    /\ UNCHANGED <<users, packages, packages_fts, pkg_seq, has_fts, now, workers>>

\* the GET handlers of routes/users.py: get_me behind get_current_user, and
\* get_user by username
users_read(route, username, cred) ==
    /\ workers = <<>>
    /\ last' = IF route = "get_me"
               THEN Response(route, get_current_user(cred).status, Caller(cred),
                             NoId, NoVersion, FALSE, FALSE)
               ELSE Response(route,
                             IF \E u \in users : u.username = username THEN 200 ELSE 404,
                             NoUser, NoId, NoVersion, FALSE, FALSE)
    /\ UNCHANGED <<users, api_tokens, packages, packages_fts, pkg_seq, has_fts, now, workers>>

NextRestart ==
    \/ Tick
    \/ get_token(Alice, GoodPassword, "t3")
    \/ \E c \in AuthTokens, f \in BOOLEAN :
          \E b \in {Body(AlicePkg, V1, TitleSun), Body(AlicePkg, V2, TitleRain),
                    [Body(BobPkg, V1, TitleSun) EXCEPT !.sources = <<CsvSource, CsvSource>>]} :
              publish_package(c, b, f)
    \/ \E c \in AuthTokens, k \in Keys : unpublish_package(c, k[1], k[2])
    \/ \E fts5 \in BOOLEAN : init_db(fts5)
    \/ \E pid \in PackageIds :
          \E route \in {"get_package", "get_latest", "get_all_versions",
                        "list_packages", "suggest_packages"} : packages_read(route, pid)
    \/ \E publisher \in PublisherInputs :
          \E route \in {"get_stats", "get_publisher", "get_namespace"} :
              publishers_read(route, publisher)
    \/ \E c \in AuthCredentials : users_read("get_me", NoUser.username, c)
    \/ \E username \in Usernames \cup {<<"n", "n">>} : users_read("get_user", username, NoCred)

SpecRestart == InitSearch /\ [][NextRestart]_vars

\* C32: from any set of documents the index holds, the backfill adds exactly
\* one document for each stored record that has none and keeps the others, and
\* a second run adds nothing; a restart changes the index by the backfill
\* alone, or not at all without FTS5, and changes no other table; no record
\* ever has more than one document.
C32_BackfillCompletes ==
    /\ [](\A r \in packages : Cardinality({d \in packages_fts : d.rowid = r.id}) <= 1)
    /\ [](\A S \in SUBSET packages_fts :
             LET filled == _backfill_fts(packages, S)
             IN  /\ S \subseteq filled
                 /\ \A r \in packages :
                       /\ Cardinality({d \in filled : d.rowid = r.id}) = 1
                       /\ (\A d \in S : d.rowid # r.id) => FtsDoc(r) \in filled
                 /\ \A d \in filled \ S : \E r \in packages : d.rowid = r.id
                 /\ _backfill_fts(packages, filled) = filled)
    /\ [][last'.op = "init_db" =>
             /\ UNCHANGED <<users, api_tokens, packages, pkg_seq>>
             /\ packages_fts \subseteq packages_fts'
             /\ has_fts' => \A r \in packages :
                               Cardinality({d \in packages_fts' : d.rowid = r.id}) = 1
             /\ Cardinality(packages_fts') - Cardinality(packages_fts) =
                   IF has_fts'
                   THEN Cardinality({r \in packages : \A d \in packages_fts : d.rowid # r.id})
                   ELSE 0]_vars

\* a server with FTS5 has restarted on a database of two records, each of
\* which has its document
C32_Witness ==
    /\ last.op = "init_db"
    /\ has_fts
    /\ Cardinality(packages) = 2
    /\ \A r \in packages : FtsDoc(r) \in packages_fts

\* what a publish is compared on: the (identifier, version, payload, owner)
\* of the rows, and the documents by the key of their row, without rowid
Tuples(pkgs) == {<<r.package_id, r.version, r.data, r.owner_id>> : r \in pkgs}
Searchable(db) ==
    <<{<<r.package_id, r.version, [d EXCEPT !.rowid = 0]>> :
          <<r, d>> \in {x \in db.packages \X db.fts : x[2].rowid = x[1].id}},
      Cardinality(db.fts)>>

\* C33: the same publish request (caller, identifier, version, payload, force
\* flag) executed once more straight after its first execution leaves the
\* (identifier, version, payload, owner) tuples and the documents of the index
\* as the first execution left them.
C33_PublishRetryable ==
    [][last'.op = "publish_package" =>
          \A c \in TokenValues, f \in BOOLEAN :
              \A b \in SearchBodies :
                  (/\ last'.id = b.id /\ last'.version = b.version /\ last'.force = f
                   /\ last'.caller = Caller(c).username
                   /\ publish_package(c, b, f)) =>
                      LET again == PublishOutcome(c, b, f)'
                      IN  /\ Tuples(again.db.packages) = Tuples(packages')
                          /\ Searchable(again.db) = Searchable(DB')]_vars

\* a forced publish has replaced the row of an earlier publish of the same
\* payload by the same owner, under an index
C33_Witness ==
    /\ last.op = "publish_package" /\ last.status = 201 /\ last.replaced /\ last.force
    /\ has_fts
    /\ \E r \in packages : r.package_id = last.id /\ r.version = last.version /\ r.id > 1
    /\ \E b \in SearchBodies :
          /\ b \in {r.data : r \in packages} /\ b.id = last.id /\ b.version = last.version
          /\ PublishOutcome("t1", b, TRUE).status = 201
          /\ PublishOutcome("t1", b, TRUE).replaced

\* C34: stats reports as datasets the number of stored versions, as publishers
\* the number of distinct first segments of the stored identifiers and as
\* sources the number of source descriptors over all stored versions; the
\* three are 0 when nothing is stored.
C34_StatsCount ==
    LET stats == get_stats(packages)
    IN  /\ stats.datasets = Cardinality({<<r.package_id, r.version>> : r \in packages})
        /\ stats.publishers = Cardinality({split(r.package_id, "/")[1] : r \in packages})
        /\ stats.sources =
              Cardinality(UNION {{<<r.id, i>> : i \in 1..Len(r.data.sources)} : r \in packages})
        /\ packages = {} => stats = [datasets |-> 0, publishers |-> 0, sources |-> 0]

\* three versions of two publishers are stored, one of them with two sources
C34_Witness ==
    /\ get_stats(packages) = [datasets |-> 3, publishers |-> 2, sources |-> 4]
    /\ \E r \in packages : Len(r.data.sources) = 2

\* C36: a forced overwrite leaves the record with the publication time of the
\* overwrite and an id greater than every id there was, so the overwritten
\* version is what get_latest returns for its identifier and the first entry
\* of get_all_versions, whichever version was the newest before.
C36_OverwriteBecomesLatest ==
    [][(last'.op = "publish_package" /\ last'.status = 201 /\ last'.replaced) =>
          LET new == CHOOSE r \in packages' :
                         r.package_id = last'.id /\ r.version = last'.version
          IN  /\ new.published_at = now
              /\ \A r \in packages : r.id < new.id /\ r.published_at <= new.published_at
              /\ get_latest(packages', last'.id).data = Some(new.data)
              /\ get_all_versions(packages', last'.id).versions[1] = _row_to_out(new)]_vars

\* version 0.1 was stored first and 0.2 after it, and a forced overwrite of
\* 0.1 at a later second has made 0.1 the latest
C36_Witness ==
    /\ last.op = "publish_package" /\ last.status = 201 /\ last.replaced
    /\ last.version = V1
    /\ pkg_seq = 3
    /\ \E old, new \in packages :
          /\ old.package_id = last.id /\ old.version = V2 /\ old.id = 2
          /\ new.package_id = last.id /\ new.version = V1 /\ new.id = 3
          /\ old.published_at < new.published_at
    /\ get_latest(packages, last.id).data[1].version = V1

\* C37: a read request (one version, the latest version, the version list,
\* search, suggestions, a publisher's or a namespace's packages, a user
\* profile, the caller's own profile behind the bearer lookup, stats) leaves
\* users, tokens, package rows and index documents as they were, whatever
\* status it answers.
C37_ReadsChangeNothing ==
    [][last'.op \in {"get_package", "get_latest", "get_all_versions", "list_packages",
                     "suggest_packages", "get_publisher", "get_namespace", "get_stats",
                     "get_me", "get_user"} =>
          UNCHANGED <<users, api_tokens, packages, packages_fts, pkg_seq>>]_vars

\* the caller's own profile was asked for with an expired token and refused,
\* while records and their documents are stored
C37_Witness ==
    /\ last.op = "get_me" /\ last.status = 401
    /\ \E t \in api_tokens : t.expires_at <= now
    /\ packages # {} /\ packages_fts # {}

\* C35: a publish request that ends in an error without its INSERT having
\* succeeded, the failure of the INSERT on UNIQUE(package_id, version)
\* included, has removed no row: the DELETE of a forced overwrite is not left
\* applied when the request fails.
C35_FailedPublishRemovesNothing ==
    [][\A w \in Workers :
          (/\ workers[w].op = "publish_package"
           /\ workers[w].pc \in {"select", "delete", "insert"}
           /\ workers'[w].pc = "done"
           /\ workers'[w].status >= 400) => ~workers[w].deleted]_vars

-----------------------------------------------------------------------------
(* register as the worker threads run it on the one connection: the SELECT   *)
(* of the username, the INSERT and the commit are steps of their own. Alice  *)
(* and Bob are registered; requests name Alice or a username not yet taken.  *)

\* the request arrives with a body that passed RegisterIn
ReceiveRegister(w, username) ==
    /\ workers[w].pc = "idle"
    /\ workers' = [workers EXCEPT ![w] =
           [IdleWorker EXCEPT !.op = "register", !.pc = "select",
                              !.user = [id |-> 0, username |-> username]]]
    /\ UNCHANGED <<users, api_tokens, packages, packages_fts, pkg_seq, has_fts, now, last>>

\* SELECT id FROM users WHERE username = ? and the 409 when a row is there;
\* INSERT INTO users (username is UNIQUE: sqlite3.IntegrityError is caught
\* nowhere and the request ends as a server error); db.commit() and the 201
RegisterStep(w) ==
    /\ workers[w].op = "register"
    /\ workers[w].pc \in {"select", "insert", "commit"}
    /\ LET me == workers[w]
           taken == \E u \in users : u.username = me.user.username
       IN  CASE me.pc = "select" ->
                   /\ IF taken THEN Finish(w, 409) ELSE Goto(w, "insert")
                   /\ UNCHANGED users
             [] me.pc = "insert" ->
                   IF taken
                   THEN Finish(w, 500) /\ UNCHANGED users
                   ELSE /\ users' = users \cup
                               {[id |-> Cardinality(users) + 1,
                                 username |-> me.user.username,
                                 password_hash |-> hash_password(GoodPassword)]}
                        /\ Goto(w, "commit")
             [] me.pc = "commit" -> Finish(w, 201) /\ UNCHANGED users
    /\ UNCHANGED <<api_tokens, packages, packages_fts, pkg_seq, has_fts, now, last>>

NextRegister ==
    \E w \in Workers :
        \/ \E username \in {Alice, <<"c", "y">>} : ReceiveRegister(w, username)
        \/ RegisterStep(w)
        \/ Respond(w)

SpecRegister == InitConc /\ [][NextRegister]_vars

\* C38: a register request that ends while another register of the same
\* username, which also found it unused, is past its SELECT ends in 201 or
\* 409, and one user has that username.
C38_ConcurrentRegisterConflicts ==
    [][\A w, o \in Workers :
          ( /\ w # o
            /\ workers[w].op = "register" /\ workers[o].op = "register"
            /\ workers[o].user.username = workers[w].user.username
            /\ workers[o].pc \in {"insert", "commit", "done"}
            /\ workers[o].status \in {0, 201}
            /\ workers[w].pc \in {"select", "insert", "commit"}
            /\ workers'[w].pc = "done" )
          => /\ workers'[w].status \in {201, 409}
             /\ Cardinality({u \in users' : u.username = workers[w].user.username}) = 1]_vars

\* C39: for every registered user whose username satisfies the registration
\* policy there is an identifier username/namespace/dataset that the payload
\* validators accept and the publisher check of publish_package lets through.
C39_RegisteredCanPublish ==
    \A u \in users :
        UsernamePolicy(u.username) =>
            \E namespace, dataset \in {<<"s">>, <<"w">>} :
                LET id == u.username \o <<"/">> \o namespace \o <<"/">> \o dataset
                IN  /\ PackageIn([Body(AlicePkg, V1, TitleSun) EXCEPT !.id = id])
                    /\ ~PublisherMismatch(id, u.username)

====
